---- MODULE Spec2Model ----
(***************************************************************************)
(* Incremental ingestion pipeline of the RAG service:                      *)
(*   src/src/ingestion_pipeline/utils.py         process_document,         *)
(*                                               aggregate_and_ingest      *)
(*   src/src/ingestion_pipeline/flows/*.py       the two flows             *)
(*   src/src/db/supabase/supabase_client.py      metadata store adapter    *)
(*   src/src/db/qdrant/qdrant_client.py          vector store adapter      *)
(*                                                                         *)
(* The metadata store is the table `documents`, the vector store the bag   *)
(* `points`.  One flow run maps process_document over each batch (the      *)
(* tasks of a batch interleave at their store calls), then runs            *)
(* aggregate_and_ingest on the batch's results.                            *)
(*                                                                         *)
(* Query-time path, each part with a specification of its own:             *)
(*   src/src/backend_api/core/generation_logic.py   generate_streaming_    *)
(*   src/src/backend_api/core/utils/*_provider.py   answer and the two     *)
(*                                                  providers (StreamSpec) *)
(*   src/frontend/app.py                  stream_api_response (ClientSpec) *)
(*   src/src/db/qdrant/qdrant_client.py   hybrid_search (SearchSpec)       *)
(*   src/src/db/qdrant/qdrant_client.py   initialize (InitSpec)           *)
(*   src/src/ingestion_pipeline/utils.py  get_text_splitter: split_text,  *)
(*                                        by character (SplitSpec)         *)
(*   src/frontend/app.py                  main: the chat history (ChatSpec) *)
(***************************************************************************)
EXTENDS Integers, Sequences, FiniteSets, Bags, TLC

\* ---------------------------------------------------------------- bounds
\* Longest list of documents one run loads.
MaxDocs == 3
\* BATCH_SIZE of the flows (50 and 25 in the source), scaled down so that a
\* run of MaxDocs documents has more than one batch.
BatchSize == 2
\* Number of flow runs in one behaviour.
MaxRuns == 2
\* Number of store calls that fail (raise inside the adapter) in one behaviour.
MaxFaults == 1

\* Longest list of source urls of a SearchResult.
MaxSources == 2
\* Number of chunks the provider's stream produces in one answer.
MaxChunks == 3
\* Number of chunks the network delivers a response body in.
MaxPieces == 3
\* Number of points in the collection a query searches.
MaxPoints == 3
\* Largest top_k of a query.
MaxTopK == 2
\* Largest rank constant of the store's fusion.
MaxRankConstant == 1
\* Number of times the same query is evaluated on the same collection.
MaxEvals == 2
\* Longest page_content split character by character.
MaxChars == 5
\* chunk_size and chunk_overlap of get_text_splitter (1500 and 200 in the
\* source), scaled down so that a text of MaxChars characters is split.
ChunkSize == 3
ChunkOverlap == 1
\* Number of processes that call QdrantStorage.initialize, and the calls of
\* each.
MaxProcs == 2
MaxInitCalls == 2
\* Longest chat history of the front end.
MaxMessages == 6

\* ------------------------------------------------------ program constants
\* @task(retries=2, ...) on process_document.
Retries == 2

\* ---------------------------------------------------------------- inputs
\* The source name both flows resolve.
SourceName == "Databricks Docs"
\* Python's None, as get_source_by_name returns it.
NoSource == "None"
\* The value of a flow function: static_load_flow and release_notes_flow end
\* without a return statement, so a run that ends returns None.
NotReturned == [kind |-> "not returned"]
\* No prompt has been built from the SearchResult.
NotBuilt == [built |-> FALSE, list |-> <<>>]
ReturnValue == [kind |-> "None"]

Urls == {"u1", "u2"}
\* page_content values: empty, whitespace only, two ordinary texts, and a text
\* holding a lone surrogate, which content.encode('utf-8') rejects.
Empty == ""
Blank == " "
Surrogate == "\\ud800"
Contents == {Empty, Blank, "a", "bb", Surrogate}

\* The pages a loader can fetch: a page whose text changes (and may be listed
\* twice), and a page that comes back empty, blank or undecodable.
Document ==
    {d \in [url : Urls, content : Contents] :
        (d.url = "u1") <=> (d.content \in {"a", "bb"})}

\* The lists of documents a loader can return.
RECURSIVE SeqsUpTo(_, _)
SeqsUpTo(S, n) ==
    IF n = 0 THEN {<<>>}
    ELSE LET shorter == SeqsUpTo(S, n - 1)
         IN  shorter \cup {Append(s, x) : s \in {t \in shorter : Len(t) = n - 1}, x \in S}

DocLists == SeqsUpTo(Document, MaxDocs)

\* ------------------------------------------------------- pure functions
\* hashlib.sha256(content.encode('utf-8')).hexdigest(): injective on Contents
\* (no collisions among the inputs), and not the content itself.
Sha256(content) == <<"sha256", content>>

\* content.encode('utf-8') raises UnicodeEncodeError on a lone surrogate.
EncodeRaises(content) == content = Surrogate

\* text_splitter.split_text(content): RecursiveCharacterTextSplitter strips
\* every chunk and drops the empty ones, so whitespace yields no chunk; "bb"
\* stands for a text longer than chunk_size, split in two.
split_text(content) ==
    CASE content = Empty -> <<>>
      [] content = Blank -> <<>>
      [] content = "bb"  -> << <<"bb", 1>>, <<"bb", 2>> >>
      [] OTHER           -> << <<content, 1>> >>

Min(a, b) == IF a < b THEN a ELSE b

\* --------------------------------------------------- streaming: the values
\* A text is a sequence of characters.  The urls of a SearchResult: a plain
\* one, one holding a line break, one holding a quote.
SourceUrls == {<<"x">>, <<"x", "\n", "y">>, <<"\"">>}
SearchResults == SeqsUpTo(SourceUrls, MaxSources)

\* QueryRequest.provider is any string: the two the code knows, and another
\* (the lower-case spelling).
Providers == {"openai", "OpenRouter", "openrouter"}

\* chunk.choices[0].delta.content: None, "", or a text.  None is the
\* one-element sequence NoContent, which no text of the model equals.
NoContent == <<"None">>
DeltaContents == {NoContent, <<>>, <<"a">>, <<"b">>}

\* chunk.choices[0].finish_reason: None or a reason.
NoReason == "None"
FinishReasons == {NoReason, "stop", "length"}

\* The literal gen() yields after a length-limited finish.
Truncated == <<"__truncated__">>

\* json.dumps escapes the characters a JSON string cannot hold as they are.
JsonEscapeNothing(ch) == <<ch>>
JsonEscape(ch) ==
    CASE ch = "\n" -> <<"\\", "n">>
      [] ch = "\"" -> <<"\\", "\"">>
      [] ch = "\\" -> <<"\\", "\\">>
      [] OTHER     -> <<ch>>

RECURSIVE JsonChars(_)
JsonChars(text) ==
    IF text = <<>> THEN <<>>
    ELSE JsonEscape(Head(text)) \o JsonChars(Tail(text))

JsonString(text) == <<"\"">> \o JsonChars(text) \o <<"\"">>

\* The elements of a list, separated by ", ".
RECURSIVE JsonElements(_)
JsonElements(list) ==
    IF list = <<>> THEN <<>>
    ELSE IF Len(list) = 1 THEN JsonString(Head(list))
    ELSE JsonString(Head(list)) \o <<",", " ">> \o JsonElements(Tail(list))

\* json.dumps({"type": "sources", "data": list(search_result.sources)}); the
\* fixed text before the list is one character of the model.
SourcesOpening == "{\"type\": \"sources\", \"data\": "
JsonDumps(data) ==
    <<SourcesOpening, "[">> \o JsonElements(data) \o <<"]", "}">>

\* f"{sources_data}\n"
MetadataLine(data) == JsonDumps(data) \o <<"\n">>

\* ------------------------------------------------------ client: the values
\* First lines a response can open with: the sources line of a SearchResult,
\* a JSON object of another type, a JSON value that is no object, a text that
\* is no JSON, and the empty line.
OtherObject == <<"{\"type\": \"other\"", "}">>
Number == <<"4", "2">>
FirstLines ==
    {JsonDumps(<<>>), JsonDumps(<< <<"x">> >>), OtherObject, Number, <<"n", "o">>, <<>>}

\* A character of two bytes in UTF-8, and its bytes.
EAcute == "U+00E9"
LeadByte == "0xC3"
ContinuationByte == "0xA9"

\* What follows the first line break.
Remainders == {<<>>, <<"m">>, <<"m", "\n", "o">>, <<"m", EAcute>>}

\* The texts of a response body: with a first line, or without any line break.
Bodies ==
    {line \o <<"\n">> \o rest : line \in FirstLines, rest \in Remainders}
        \cup {<<>>, <<"n", "o">>, JsonDumps(<<>>)}

\* str.encode('utf-8'), as the server sends the text: every other character
\* of the model is one byte, written as the character.
RECURSIVE Encode(_)
Encode(text) ==
    IF text = <<>> THEN <<>>
    ELSE (IF Head(text) = EAcute THEN <<LeadByte, ContinuationByte>>
                                 ELSE <<Head(text)>>) \o Encode(Tail(text))

\* chunk.decode('utf-8') raises UnicodeDecodeError on a chunk that holds a
\* part of a character only.
RECURSIVE Decodable(_)
Decodable(bytes) ==
    IF bytes = <<>> THEN TRUE
    ELSE IF Head(bytes) = LeadByte
      THEN /\ Len(bytes) >= 2
           /\ bytes[2] = ContinuationByte
           /\ Decodable(Tail(Tail(bytes)))
    ELSE IF Head(bytes) = ContinuationByte THEN FALSE
    ELSE Decodable(Tail(bytes))

\* chunk.decode('utf-8') of a chunk it accepts.
RECURSIVE Decode(_)
Decode(bytes) ==
    IF bytes = <<>> THEN <<>>
    ELSE IF Head(bytes) = LeadByte
      THEN <<EAcute>> \o Decode(Tail(Tail(bytes)))
    ELSE <<Head(bytes)>> \o Decode(Tail(bytes))

\* The ways the network delivers bytes in at most n non-empty chunks.
RECURSIVE Splits(_, _)
Splits(text, n) ==
    IF text = <<>> THEN {<<>>}
    ELSE IF n = 1 THEN {<<text>>}
    ELSE UNION {{<<SubSeq(text, 1, k)>> \o s :
                    s \in Splits(SubSeq(text, k + 1, Len(text)), n - 1)} :
                k \in 1..Len(text)}

\* json.loads(first_line) on the lines of the model: the dict of a sources
\* line, the dict of another object, a value that is no dict, or
\* JSONDecodeError.
JsonLoads(line) ==
    IF \E data \in SearchResults : line = JsonDumps(data)
      THEN [kind |-> "dict", type |-> "sources",
            data |-> CHOOSE data \in SearchResults : line = JsonDumps(data)]
    ELSE IF line = OtherObject
      THEN [kind |-> "dict", type |-> "other", data |-> <<>>]
    ELSE IF line = Number
      THEN [kind |-> "int", type |-> "", data |-> <<>>]
    ELSE [kind |-> "JSONDecodeError", type |-> "", data |-> <<>>]

\* The position of the first line break of a text (0: none).
RECURSIVE FirstNewline(_, _)
FirstNewline(text, n) ==
    IF n > Len(text) THEN 0
    ELSE IF text[n] = "\n" THEN n
    ELSE FirstNewline(text, n + 1)

\* text.strip()
RECURSIVE Strip(_)
Strip(text) ==
    IF text = <<>> THEN text
    ELSE IF Head(text) \in {"\n", " "} THEN Strip(Tail(text))
    ELSE IF text[Len(text)] \in {"\n", " "} THEN Strip(SubSeq(text, 1, Len(text) - 1))
    ELSE text

\* clean_and_format_response(text): the texts of the model hold no citation
\* mark "[1]" and no header, so the two substitutions leave them as they are.
clean_and_format_response(text) == Strip(text)

\* The tuple stream_api_response returns; NoResult before it has returned.
NoError == "None"
NoResult == [content |-> <<>>, sources |-> <<>>, error |-> "not returned"]

\* `if delta_text:`
TruthyUnlessNone(delta_text) == delta_text # NoContent
Truthy(delta_text) == delta_text # NoContent /\ delta_text # <<>>

\* `if finish_reason: last_finish_reason = finish_reason`
RecordFinishAlways(last, reason) == reason
RecordFinish(last, reason) == IF reason # NoReason THEN reason ELSE last

\* ----------------------------------------------------------------- state
VARIABLES
    idKind,     \* type of documents.id in the metadata store: "str" (uuid) or "int"
    sources,    \* metadata store, table sources: the names registered
    documents,  \* metadata store, table documents: row n has id n
    points,     \* vector store: bag of payloads [document_id, text, source_url]
    flow,       \* "idle" | "map" | "checkpoint" | "finished" | "failed"
    flow_return,\* what the flow function returned to its caller
    err,        \* the exception a failed run raised to its caller
    run,        \* runs started so far
    docs,       \* the documents this run loaded
    i,          \* start of the current batch (the flows' loop variable)
    tasks,      \* the process_document task runs of the current batch
    j,          \* aggregate_and_ingest: next element of indicators to checkpoint
    faults,     \* store calls that have failed so far
    upserted,   \* history: <<document_id, content>> whose chunks an upsert stored
    lost,       \* history: documents of a batch whose upsert raised, not stored since
    repeated,   \* history: this run loads what the previous run loaded and finished
    upsert_calls, \* history: the points of each qdrant.upsert call made for this batch
    crashed,    \* history: the 'update' documents whose chunks were deleted and not
                \* yet inserted when the last run was stopped
    runLog      \* history: what this run did ("result", "upsert", "upsert_failed",
                \* "delete", "write", "no_source")

ingestVars == <<idKind, sources, documents, points, flow, flow_return, err, run, docs, i, tasks,
                j, faults, upserted, lost, repeated, upsert_calls, crashed, runLog>>

\* generate_streaming_answer and the provider's generator gen().
VARIABLES
    provider,           \* query_request.provider
    search_result,      \* search_result.sources: a list of urls
    at,                 \* where the generator stands: "start" | "meta" | "create" |
                        \* "next" | "delta" | "sentinel" | "done" | "raised" |
                        \* "cancelled"
    out,                \* the items yielded to the consumer so far
    stream,             \* the provider's stream: "none" | "open" | "ended" | "broken"
    finish_reason,      \* gen(): finish_reason of the chunk in hand
    last_finish_reason, \* gen(): last_finish_reason
    received,           \* number of chunks the provider's stream has produced
    calls,              \* history: chat.completions.create calls begun
    deltas,             \* history: the non-empty content deltas the provider produced
    terminal,           \* history: the last finish reason the provider reported
    sentinels,          \* history: times gen() yielded the sentinel
    failed              \* history: <<out>> as it was when the provider failed

streamVars == <<provider, search_result, at, out, stream, finish_reason,
                last_finish_reason, received, calls, deltas, terminal, sentinels,
                failed>>

\* stream_api_response of the front end.
VARIABLES
    status,          \* response.status_code
    body,            \* the bytes of the response body
    wire,            \* the chunks iter_content has still to deliver
    arrived,         \* history: the text of the chunks delivered so far
    buffer,          \* buffer
    full_response,   \* full_response
    client_sources,  \* sources
    is_first_chunk,  \* is_first_chunk
    client_at,       \* "reading" | "returned"
    returned         \* the tuple returned: [content, sources, error]

clientVars == <<status, body, wire, arrived, buffer, full_response, client_sources,
                is_first_chunk, client_at, returned>>

\* QdrantStorage.hybrid_search over a collection that does not change.
VARIABLES
    payload,         \* the collection: the payload of each point
    dense,           \* the points by cosine similarity to the query, best first
    sparse,          \* the points the sparse query matches, best first
    top_k,           \* top_k
    rank_constant,   \* the rank constant of the store's RRF
    results,         \* results.points of the last call: [id, score] each
    contexts,        \* SearchResult.contexts of the last call
    found_sources,   \* SearchResult.sources of the last call
    search_at,       \* "idle" | "returned" | "raised"
    evals,           \* history: calls of hybrid_search that returned
    previous,        \* history: results.points of the call before the last
    previous_sources,\* history: SearchResult.sources of the call before the last
    contexts_list    \* build_prompt: contexts_list, once it is built

searchVars == <<payload, dense, sparse, top_k, rank_constant, results, contexts,
                found_sources, search_at, evals, previous, previous_sources,
                contexts_list>>

\* text_splitter.split_text(content), character by character.
VARIABLES
    page_content,    \* the content handed to split_text
    split_chunks,    \* the chunks split_text returned
    split_at         \* "input" | "split"

splitVars == <<page_content, split_chunks, split_at>>

\* QdrantStorage.initialize, called by several processes on one store.
VARIABLES
    coll_exists,     \* the store has the collection
    coll_index,      \* the collection has the document_id payload index
    init_pc,         \* per process: "idle" | "checked" | "created" | "done" |
                     \* "conflict" | "raised"
    exists,          \* per process: `exists`, as collection_exists answered
    init_calls,      \* per process: calls of initialize begun
    init_faults      \* store calls of initialize that have failed so far

initVars == <<coll_exists, coll_index, init_pc, exists, init_calls, init_faults>>

\* main() of the front end: one session.
VARIABLES
    messages,        \* st.session_state.messages: [role, content] each
    query_to_send,   \* query_to_send of the last prompt
    read             \* history: the messages the last prompt read as messages[-3],
                     \* messages[-2] and messages[-1] when it attached the context

chatVars == <<messages, query_to_send, read>>

queryVars == <<initVars, splitVars, searchVars, streamVars, clientVars, chatVars>>

vars == <<ingestVars, queryVars>>

\* The document id as the metadata store returns it.
DocId(n) == <<idKind, n>>
\* str(document_id)
Str(id) == <<"str", id[2]>>

\* NULL of a column.
Null == -1

None == [action |-> "none", doc_id |-> <<"none", 0>>, chunks |-> <<>>,
         metadatas |-> <<>>, new_hash |-> <<>>, n_chunks |-> 0]

\* The dict process_document returns (the title of the metadata is left out:
\* nothing reads it during ingestion).
Result(doc_id, url, content, action) ==
    LET chunks == split_text(content)
    IN  [action    |-> action,
         doc_id    |-> doc_id,
         chunks    |-> chunks,
         metadatas |-> [c \in 1..Len(chunks) |->
                          [document_id |-> doc_id, source_url |-> url]],
         new_hash  |-> Sha256(content),
         n_chunks  |-> Len(chunks)]

\* A task run: where it stands (pc), its attempt, the id it resolved, what it
\* returned, and as history its classification, the hashes the store held for
\* its url when it looked, the store calls it made, and the store call of it
\* that failed.
NewTask == [pc |-> "run", attempt |-> 1, doc_id |-> <<"none", 0>>, res |-> None,
            class |-> "", existed |-> {}, calls |-> {}, fault |-> ""]

\* batch = docs[i:i+BATCH_SIZE]
Batch(d, from) == SubSeq(d, from + 1, Min(from + BatchSize, Len(d)))

\* process_document.map(document=batch, ...): one task run per document.
Map(batch) == [k \in 1..Len(batch) |-> NewTask]

batch == Batch(docs, i)

\* ------------------------------------------------------- metadata store
\* The rows .eq("url", url) selects.
RowsByUrl(url) == {n \in 1..Len(documents) : documents[n].url = url}

\* The hashes stored for a url.
StoredHashes(url) == {documents[n].hash : n \in RowsByUrl(url)}

\* ---------------------------------------------------------- vector store
\* client.delete(points_selector=Filter(document_id == value)): a keyword match,
\* which a point whose payload holds another value (or the integer) escapes.
DeleteByFilter(B, value) ==
    LET keep == {p \in DOMAIN B : p.document_id # value}
    IN  [p \in keep |-> B[p]]

\* The points of one upsert call: payload = {"text": chunks[c], **metadatas[c]}.
PointsOf(chunks, metadatas) ==
    [c \in 1..Len(chunks) |->
        [document_id |-> metadatas[c].document_id,
         text        |-> chunks[c],
         source_url  |-> metadatas[c].source_url]]

RECURSIVE AddPoints(_, _)
AddPoints(B, ps) ==
    IF ps = <<>> THEN B
    ELSE AddPoints(B (+) SetToBag({Head(ps)}), Tail(ps))

\* The front end has no session.
NoQuery == [context |-> FALSE, last_user_msg |-> <<>>, last_assistant_msg |-> <<>>,
            prompt |-> <<>>]
NotRead == [attached |-> FALSE, user |-> <<>>, assistant |-> <<>>, current |-> <<>>]

ChatIdle ==
    /\ messages = <<>>
    /\ query_to_send = NoQuery
    /\ read = NotRead

\* No request is being answered.
StreamIdle ==
    /\ provider = "openai"
    /\ search_result = <<>>
    /\ at = "start"
    /\ out = <<>>
    /\ stream = "none"
    /\ finish_reason = NoReason
    /\ last_finish_reason = NoReason
    /\ received = 0
    /\ calls = 0
    /\ deltas = <<>>
    /\ terminal = NoReason
    /\ sentinels = 0
    /\ failed = <<>>

\* No process is starting: the collection stands, with its index.
InitIdle ==
    /\ coll_exists = TRUE
    /\ coll_index = TRUE
    /\ init_pc = <<>>
    /\ exists = <<>>
    /\ init_calls = <<>>
    /\ init_faults = 0

\* No text is being split.
SplitIdle ==
    /\ page_content = <<>>
    /\ split_chunks = <<>>
    /\ split_at = "input"

\* No search is being made: an empty collection.
SearchIdle ==
    /\ payload = <<>>
    /\ dense = <<>>
    /\ sparse = <<>>
    /\ top_k = 1
    /\ rank_constant = 0
    /\ results = <<>>
    /\ contexts = <<>>
    /\ found_sources = <<>>
    /\ search_at = "idle"
    /\ evals = 0
    /\ previous = <<>>
    /\ previous_sources = <<>>
    /\ contexts_list = NotBuilt

\* No response is being read.
ClientIdle ==
    /\ status = 200
    /\ body = <<>>
    /\ wire = <<>>
    /\ arrived = <<>>
    /\ buffer = <<>>
    /\ full_response = <<>>
    /\ client_sources = <<>>
    /\ is_first_chunk = TRUE
    /\ client_at = "reading"
    /\ returned = NoResult

Init ==
    /\ ChatIdle
    /\ InitIdle
    /\ SplitIdle
    /\ SearchIdle
    /\ StreamIdle
    /\ ClientIdle
    /\ idKind \in {"str", "int"}
    /\ sources \in {{}, {SourceName}}
    /\ documents = <<>>
    /\ points = EmptyBag
    /\ flow = "idle"
    /\ flow_return = NotReturned
    /\ err = "none"
    /\ run = 0
    /\ docs = <<>>
    /\ i = 0
    /\ tasks = <<>>
    /\ j = 1
    /\ faults = 0
    /\ upserted = {}
    /\ lost = {}
    /\ repeated = FALSE
    /\ upsert_calls = <<>>
    /\ crashed = {}
    /\ runLog = {}

\* ------------------------------------------------------------------ flow
\* db.get_source_by_name(name): response.data[0] if response.data else None
\* (the row stands for itself by its name).
get_source_by_name(name) == IF name \in sources THEN name ELSE NoSource

\* get_source_id: `if not source: raise ValueError(...)`.
GetSourceIdNeverRaises(source) == FALSE
GetSourceIdRaises(source) == source = NoSource

\* The body of a flow once get_source_by_name has answered `source`:
\* get_source_id raises and the run fails, or the loader runs and the first
\* batch is mapped.  (static_load_flow and release_notes_flow differ in the
\* loader and in BATCH_SIZE only.)
Begin(list, source) ==
    /\ run' = run + 1
    /\ i' = 0
    /\ j' = 1
    /\ IF GetSourceIdRaises(source)
         THEN /\ flow' = "failed"
              /\ flow_return' = NotReturned
              /\ err' = "source"
              /\ docs' = <<>>
              /\ tasks' = <<>>
              /\ repeated' = FALSE
         ELSE /\ err' = "none"
              /\ docs' = list
              /\ repeated' = (run > 0 /\ flow = "finished" /\ list = docs)
              /\ IF Len(list) = 0
                   THEN flow' = "finished" /\ tasks' = <<>>
                        /\ flow_return' = ReturnValue
                   ELSE flow' = "map" /\ tasks' = Map(Batch(list, 0))
                        /\ flow_return' = NotReturned
    /\ runLog' = IF source = NoSource THEN {"no_source"} ELSE {}
    /\ upsert_calls' = <<>>
    /\ crashed' = IF flow = "failed" /\ err = "stopped" THEN crashed ELSE {}

\* A flow starts: get_managers, get_text_splitter, get_source_id, the loader.
StartRun(list) ==
    /\ flow \in {"idle", "finished", "failed"}
    /\ run < MaxRuns
    /\ Begin(list, get_source_by_name(SourceName))
    /\ UNCHANGED <<queryVars, idKind, sources, documents, points, faults, upserted, lost>>

\* The select of get_source_by_name fails: the adapter logs and returns None.
StartRunLookupFails(list) ==
    /\ flow \in {"idle", "finished", "failed"}
    /\ run < MaxRuns
    /\ faults < MaxFaults
    /\ faults' = faults + 1
    /\ Begin(list, NoSource)
    /\ UNCHANGED <<queryVars, idKind, sources, documents, points, upserted, lost>>

\* --------------------------------------------------------- process_document
\* if not content: return
IsSkippedNever(content) == FALSE
IsSkipped(content) == content = Empty

Finish(k, result, class) ==
    [tasks EXCEPT ![k].pc = "completed", ![k].res = result, ![k].class = class]

\* An empty document is omitted.
ProcessSkip(k) ==
    /\ flow = "map"
    /\ k \in DOMAIN tasks
    /\ tasks[k].pc = "run"
    /\ IsSkipped(batch[k].content)
    /\ tasks' = Finish(k, None, "skip")
    /\ UNCHANGED <<queryVars, upsert_calls, crashed, flow_return, idKind, sources, documents, points, flow, err, run, docs, i, j, faults,
                   upserted, lost, repeated, runLog>>

\* The attempt raises (new_hash cannot be computed): Prefect runs the task again
\* while retries are left, and then leaves the task run failed.
ProcessRaiseAgain(k) ==
    /\ flow = "map"
    /\ k \in DOMAIN tasks
    /\ tasks[k].pc = "run"
    /\ EncodeRaises(batch[k].content)
    /\ tasks' = [tasks EXCEPT ![k].attempt = @ + 1]
    /\ UNCHANGED <<queryVars, upsert_calls, crashed, flow_return, idKind, sources, documents, points, flow, err,
                   run, docs, i, j, faults, upserted, lost, repeated, runLog>>

ProcessRaise(k) ==
    /\ flow = "map"
    /\ k \in DOMAIN tasks
    /\ tasks[k].pc = "run"
    /\ ~IsSkipped(batch[k].content)
    /\ EncodeRaises(batch[k].content)
    /\ tasks' = IF tasks[k].attempt <= Retries
                  THEN [tasks EXCEPT ![k].attempt = @ + 1]
                  ELSE [tasks EXCEPT ![k].pc = "failed"]
    /\ UNCHANGED <<queryVars, upsert_calls, crashed, flow_return, idKind, sources, documents, points, flow, err, run, docs, i, j, faults,
                   upserted, lost, repeated, runLog>>

\* The three branches on existing_doc (None stands for Python's None: row 0).
ClassifyUnchangedReturns(k, existing) ==
    LET seen == [tasks EXCEPT ![k].calls = @ \cup {"get_document_by_url"},
                              ![k].existed = StoredHashes(batch[k].url)]
    IN  IF existing = 0
          THEN [seen EXCEPT ![k].pc = "new", ![k].class = "new"]
          ELSE IF documents[existing].hash # Sha256(batch[k].content)
            THEN [seen EXCEPT ![k].pc = "update", ![k].class = "update",
                              ![k].doc_id = DocId(existing)]
            ELSE [seen EXCEPT ![k].pc = "completed", ![k].class = "unchanged",
                              ![k].res = Result(DocId(existing), batch[k].url,
                                                batch[k].content, "update")]

Classify(k, existing) ==
    LET new_hash == Sha256(batch[k].content)
        seen == [tasks EXCEPT ![k].calls = @ \cup {"get_document_by_url"},
                              ![k].existed = StoredHashes(batch[k].url)]
    IN  IF existing = 0
          THEN [seen EXCEPT ![k].pc = "new", ![k].class = "new"]
          ELSE IF documents[existing].hash # new_hash
            THEN [seen EXCEPT ![k].pc = "update", ![k].class = "update",
                              ![k].doc_id = DocId(existing)]
            ELSE [seen EXCEPT ![k].pc = "completed", ![k].class = "unchanged"]

\* db.get_document_by_url(url) answers: response.data[0] of a select without an
\* order (any of the rows of that url), or None when there is none.
ProcessLookup(k) ==
    /\ flow = "map"
    /\ k \in DOMAIN tasks
    /\ tasks[k].pc = "run"
    /\ ~IsSkipped(batch[k].content)
    /\ ~EncodeRaises(batch[k].content)
    /\ \E existing \in (IF RowsByUrl(batch[k].url) = {} THEN {0}
                                                      ELSE RowsByUrl(batch[k].url)) :
          tasks' = Classify(k, existing)
    /\ UNCHANGED <<queryVars, upsert_calls, crashed, flow_return, idKind, sources, documents, points, flow, err, run, docs, i, j, faults,
                   upserted, lost, repeated, runLog>>

\* db.get_document_by_url(url) fails: the adapter logs and returns None.
ProcessLookupFails(k) ==
    /\ flow = "map"
    /\ k \in DOMAIN tasks
    /\ tasks[k].pc = "run"
    /\ ~IsSkipped(batch[k].content)
    /\ ~EncodeRaises(batch[k].content)
    /\ faults < MaxFaults
    /\ faults' = faults + 1
    /\ tasks' = [Classify(k, 0) EXCEPT ![k].fault = "get_document_by_url"]
    /\ UNCHANGED <<queryVars, upsert_calls, crashed, flow_return, idKind, sources, documents, points, flow, err, run, docs, i, j,
                   upserted, lost, repeated, runLog>>

\* db.insert_document(source_id, url, title, doc_hash=new_hash) stores the row,
\* with its hash, and returns the new id.
ProcessInsert(k) ==
    /\ flow = "map"
    /\ k \in DOMAIN tasks
    /\ tasks[k].pc = "new"
    /\ documents' = Append(documents, [url |-> batch[k].url,
                                       hash |-> Sha256(batch[k].content),
                                       n_chunks |-> Null,
                                       ingested_at |-> Null])
    /\ LET doc_id == DocId(Len(documents) + 1)
           called == [tasks EXCEPT ![k].calls = @ \cup {"insert_document"},
                                   ![k].doc_id = doc_id]
       IN  tasks' = [called EXCEPT ![k].pc = "completed",
                       ![k].res = Result(doc_id, batch[k].url, batch[k].content, "new")]
    /\ runLog' = runLog \cup {"write", "result"}
    /\ UNCHANGED <<queryVars, upsert_calls, crashed, flow_return, idKind, sources, points, flow, err, run, docs, i, j, faults,
                   upserted, lost, repeated>>

\* db.insert_document fails: the adapter returns None, and so does the task.
ProcessInsertFails(k) ==
    /\ flow = "map"
    /\ k \in DOMAIN tasks
    /\ tasks[k].pc = "new"
    /\ faults < MaxFaults
    /\ faults' = faults + 1
    /\ tasks' = [tasks EXCEPT ![k].calls = @ \cup {"insert_document"},
                              ![k].pc = "completed",
                              ![k].fault = "insert_document"]
    /\ UNCHANGED <<queryVars, upsert_calls, crashed, flow_return, idKind, sources, documents, points, flow, err, run, docs, i, j,
                   upserted, lost, repeated, runLog>>

\* await qdrant.delete_by_document_id(doc_id), whose result is not read.
ProcessDelete(k) ==
    /\ flow = "map"
    /\ k \in DOMAIN tasks
    /\ tasks[k].pc = "update"
    /\ points' = DeleteByFilter(points, Str(tasks[k].doc_id))
    /\ LET called == [tasks EXCEPT ![k].calls = @ \cup {"delete_by_document_id"}]
       IN  tasks' = [called EXCEPT ![k].pc = "completed",
                       ![k].res = Result(tasks[k].doc_id, batch[k].url,
                                         batch[k].content, "update")]
    /\ runLog' = runLog \cup {"delete", "result"}
    /\ UNCHANGED <<queryVars, upsert_calls, crashed, flow_return, idKind, sources, documents, flow, err, run, docs, i, j, faults,
                   upserted, lost, repeated>>

\* client.delete raises: delete_by_document_id logs and returns False.
ProcessDeleteFails(k) ==
    /\ flow = "map"
    /\ k \in DOMAIN tasks
    /\ tasks[k].pc = "update"
    /\ faults < MaxFaults
    /\ faults' = faults + 1
    /\ LET called == [tasks EXCEPT ![k].calls = @ \cup {"delete_by_document_id"},
                                   ![k].fault = "delete_by_document_id"]
       IN  tasks' = [called EXCEPT ![k].pc = "completed",
                       ![k].res = Result(tasks[k].doc_id, batch[k].url,
                                         batch[k].content, "update")]
    /\ runLog' = runLog \cup {"delete", "result"}
    /\ UNCHANGED <<queryVars, upsert_calls, crashed, flow_return, idKind, sources, documents, points, flow, err, run, docs, i, j,
                   upserted, lost, repeated>>

\* ----------------------------------------------------- aggregate_and_ingest
SomeCompleted == \E k \in DOMAIN tasks : tasks[k].pc = "completed"
AllCompleted == \A k \in DOMAIN tasks : tasks[k].pc = "completed"
AllTerminal == \A k \in DOMAIN tasks : tasks[k].pc \in {"completed", "failed"}

\* The results that pass `if res:`, in the order of the batch.
RECURSIVE Kept(_)
Kept(ks) ==
    IF ks = <<>> THEN <<>>
    ELSE IF tasks[Head(ks)].res.action # "none"
           THEN <<Head(ks)>> \o Kept(Tail(ks))
           ELSE Kept(Tail(ks))

KeptTasks == Kept([k \in 1..Len(tasks) |-> k])

\* indicators: (doc_id, action, new_hash, n_chunks) of each kept result.
Indicators == [n \in 1..Len(KeptTasks) |-> tasks[KeptTasks[n]].res]

\* all_chunks with all_metadatas, as the points the upsert builds.
RECURSIVE AllPoints(_)
AllPoints(rs) ==
    IF rs = <<>> THEN <<>>
    ELSE PointsOf(Head(rs).chunks, Head(rs).metadatas) \o AllPoints(Tail(rs))

\* The documents of the batch that carry chunks into the upsert.
Carried == {batch[k] : k \in {n \in DOMAIN tasks : tasks[n].res.n_chunks > 0}}

\* A task run of the batch failed: Prefect does not run aggregate_and_ingest
\* on a failed upstream future, the await raises and the flow run fails.
AggregateUpstreamFailed ==
    /\ flow = "map"
    /\ AllTerminal
    /\ \E k \in DOMAIN tasks : tasks[k].pc = "failed"
    /\ flow' = "failed"
    /\ err' = "upstream"
    /\ UNCHANGED <<queryVars, upsert_calls, crashed, flow_return, idKind, sources, documents, points, run, docs, i, tasks, j, faults,
                   upserted, lost, repeated, runLog>>

\* if all_chunks: await qdrant.upsert(all_chunks, all_metadatas) succeeds.
AggregateUpsertPerDocument ==
    /\ flow = "map"
    /\ AllCompleted
    /\ AllPoints(Indicators) # <<>>
    /\ points' = AddPoints(points, AllPoints(Indicators))
    /\ upserted' = upserted \cup
          {<<r.doc_id, r.new_hash>> : r \in {Indicators[n] : n \in
                {m \in DOMAIN Indicators : Indicators[m].n_chunks > 0}}}
    /\ lost' = lost \ Carried
    /\ flow' = "checkpoint"
    /\ j' = 1
    /\ runLog' = runLog \cup {"upsert"}
    /\ upsert_calls' = [n \in DOMAIN Indicators |->
                           PointsOf(Indicators[n].chunks, Indicators[n].metadatas)]
    /\ UNCHANGED <<queryVars, crashed, flow_return, idKind, sources, documents, err, run, docs, i, tasks, faults, repeated>>

AggregateUpsert ==
    /\ flow = "map"
    /\ AllCompleted
    /\ AllPoints(Indicators) # <<>>
    /\ points' = AddPoints(points, AllPoints(Indicators))
    /\ upserted' = upserted \cup
          {<<r.doc_id, r.new_hash>> : r \in {Indicators[n] : n \in
                {m \in DOMAIN Indicators : Indicators[m].n_chunks > 0}}}
    /\ lost' = lost \ Carried
    /\ flow' = "checkpoint"
    /\ j' = 1
    /\ runLog' = runLog \cup {"upsert"}
    /\ upsert_calls' = Append(upsert_calls, AllPoints(Indicators))
    /\ UNCHANGED <<queryVars, crashed, flow_return, idKind, sources, documents, err, run, docs, i, tasks, faults, repeated>>

\* QdrantStorage.upsert's `except Exception: ... raise`: the exception leaves
\* aggregate_and_ingest and the flow.
QdrantUpsertSwallowed == flow' = "checkpoint" /\ err' = "none" /\ j' = 1
QdrantUpsertRaises == flow' = "failed" /\ err' = "upsert" /\ j' = j

\* await qdrant.upsert(...) fails (embedding or client.upsert raises).
AggregateUpsertFails ==
    /\ flow = "map"
    /\ AllCompleted
    /\ AllPoints(Indicators) # <<>>
    /\ faults < MaxFaults
    /\ faults' = faults + 1
    /\ QdrantUpsertRaises
    /\ upsert_calls' = Append(upsert_calls, AllPoints(Indicators))
    /\ lost' = lost \cup Carried
    /\ runLog' = runLog \cup {"upsert", "upsert_failed"}
    /\ UNCHANGED <<queryVars, crashed, flow_return, idKind, sources, documents, points, run, docs, i, tasks,
                   upserted, repeated>>

\* else: "There are no new vectors to insert."
AggregateNoChunks ==
    /\ flow = "map"
    /\ AllCompleted
    /\ AllPoints(Indicators) = <<>>
    /\ flow' = "checkpoint"
    /\ j' = 1
    /\ UNCHANGED <<queryVars, upsert_calls, crashed, flow_return, idKind, sources, documents, points, err, run, docs, i, tasks, faults,
                   upserted, lost, repeated, runLog>>

\* db.ingestion_checkpoint(doc_id, n_chunks) / db.update_document_hash(doc_id,
\* new_hash, n_chunks) on the row .eq("id", doc_id); ingested_at is the time of
\* the write (the run stands for it).
Checkpointed(row, ind) ==
    IF ind.action = "new"
      THEN [row EXCEPT !.ingested_at = run, !.n_chunks = ind.n_chunks]
      ELSE [row EXCEPT !.ingested_at = run, !.n_chunks = ind.n_chunks,
                       !.hash = ind.new_hash]

\* One turn of `for doc_id, action, new_hash, n_chunks in indicators`.
Checkpoint ==
    /\ flow = "checkpoint"
    /\ j <= Len(Indicators)
    /\ LET ind == Indicators[j]
           n == ind.doc_id[2]
       IN  documents' = [documents EXCEPT ![n] = Checkpointed(@, ind)]
    /\ j' = j + 1
    /\ runLog' = runLog \cup {"write"}
    /\ UNCHANGED <<queryVars, upsert_calls, crashed, flow_return, idKind, sources, points, flow, err, run, docs, i, tasks, faults,
                   upserted, lost, repeated>>

\* The write fails: the adapter logs and returns False, the loop goes on.
CheckpointFails ==
    /\ flow = "checkpoint"
    /\ j <= Len(Indicators)
    /\ faults < MaxFaults
    /\ faults' = faults + 1
    /\ j' = j + 1
    /\ UNCHANGED <<queryVars, upsert_calls, crashed, flow_return, idKind, sources, documents, points, flow, err, run, docs, i, tasks,
                   upserted, lost, repeated, runLog>>

\* aggregate_and_ingest returned: sleep, then the next batch or the end.
NextBatch ==
    /\ flow = "checkpoint"
    /\ j > Len(Indicators)
    /\ j' = 1
    /\ IF i + BatchSize < Len(docs)
         THEN flow' = "map" /\ i' = i + BatchSize
              /\ tasks' = Map(Batch(docs, i + BatchSize))
              /\ upsert_calls' = <<>>
              /\ UNCHANGED flow_return
         ELSE flow' = "finished" /\ i' = i /\ tasks' = tasks
              /\ flow_return' = ReturnValue
              /\ UNCHANGED upsert_calls
    /\ UNCHANGED <<queryVars, crashed, idKind, sources, documents, points, err, run, docs, faults,
                   upserted, lost, repeated, runLog>>

Next ==
    \/ \E list \in DocLists : StartRun(list)
    \/ \E list \in DocLists : StartRunLookupFails(list)
    \/ \E k \in 1..BatchSize : ProcessSkip(k)
    \/ \E k \in 1..BatchSize : ProcessRaise(k)
    \/ \E k \in 1..BatchSize : ProcessLookup(k)
    \/ \E k \in 1..BatchSize : ProcessLookupFails(k)
    \/ \E k \in 1..BatchSize : ProcessInsert(k)
    \/ \E k \in 1..BatchSize : ProcessInsertFails(k)
    \/ \E k \in 1..BatchSize : ProcessDelete(k)
    \/ \E k \in 1..BatchSize : ProcessDeleteFails(k)
    \/ AggregateUpstreamFailed
    \/ AggregateUpsert
    \/ AggregateUpsertFails
    \/ AggregateNoChunks
    \/ Checkpoint
    \/ CheckpointFails
    \/ NextBatch

Spec == Init /\ [][Next]_vars

\* ======================================================= a run is stopped
\* The stores as a finished run over the page u1 with content "a" leaves
\* them: its row, checkpointed, and its chunk.
FirstRun == Result(DocId(1), "u1", "a", "new")

CrashInit ==
    /\ ChatIdle
    /\ InitIdle
    /\ SplitIdle
    /\ SearchIdle
    /\ StreamIdle
    /\ ClientIdle
    /\ idKind \in {"str", "int"}
    /\ sources = {SourceName}
    /\ documents = <<[url |-> "u1", hash |-> FirstRun.new_hash,
                      n_chunks |-> FirstRun.n_chunks, ingested_at |-> 0]>>
    /\ points = AddPoints(EmptyBag, PointsOf(FirstRun.chunks, FirstRun.metadatas))
    /\ flow = "idle"
    /\ flow_return = NotReturned
    /\ err = "none"
    /\ run = 0
    /\ docs = <<>>
    /\ i = 0
    /\ tasks = <<>>
    /\ j = 1
    /\ faults = 0
    /\ upserted = {<<FirstRun.doc_id, FirstRun.new_hash>>}
    /\ lost = {}
    /\ repeated = FALSE
    /\ upsert_calls = <<>>
    /\ crashed = {}
    /\ runLog = {}

\* The 'update' task runs of the batch that have called
\* qdrant.delete_by_document_id, while the upsert of the batch is still to
\* come: the document, its id, and the hash its row holds.
Deleted ==
    IF flow # "map" THEN {}
    ELSE {[doc_id |-> tasks[k].doc_id, url |-> batch[k].url,
           content |-> batch[k].content,
           old_hash |-> documents[tasks[k].doc_id[2]].hash] :
          k \in {n \in DOMAIN tasks :
                   /\ tasks[n].class = "update"
                   /\ "delete_by_document_id" \in tasks[n].calls}}

\* The process that runs the flow stops (it is killed, the machine goes
\* down): no statement of the run is executed any more, the stores stay as
\* they are.
Stop ==
    /\ flow \in {"map", "checkpoint"}
    /\ flow' = "failed"
    /\ err' = "stopped"
    /\ crashed' = Deleted
    /\ UNCHANGED <<queryVars, upsert_calls, flow_return, idKind, sources, documents,
                   points, run, docs, i, tasks, j, faults, upserted, lost, repeated,
                   runLog>>

CrashNext ==
    \/ Next
    \/ Stop

CrashSpec == CrashInit /\ [][CrashNext]_vars

\* =================================================== streaming an answer
\* No flow runs while an answer is streamed.
IngestIdle ==
    /\ idKind = "str"
    /\ sources = {SourceName}
    /\ documents = <<>>
    /\ points = EmptyBag
    /\ flow = "idle"
    /\ flow_return = NotReturned
    /\ err = "none"
    /\ run = 0
    /\ docs = <<>>
    /\ i = 0
    /\ tasks = <<>>
    /\ j = 1
    /\ faults = 0
    /\ upserted = {}
    /\ lost = {}
    /\ repeated = FALSE
    /\ upsert_calls = <<>>
    /\ crashed = {}
    /\ runLog = {}

\* stream_generation hands generate_streaming_answer(query_request,
\* search_result, user_api_key) to StreamingResponse, not yet started.
StreamInit ==
    /\ ChatIdle
    /\ IngestIdle
    /\ InitIdle
    /\ SplitIdle
    /\ SearchIdle
    /\ ClientIdle
    /\ provider \in Providers
    /\ search_result \in SearchResults
    /\ at = "start"
    /\ out = <<>>
    /\ stream = "none"
    /\ finish_reason = NoReason
    /\ last_finish_reason = NoReason
    /\ received = 0
    /\ calls = 0
    /\ deltas = <<>>
    /\ terminal = NoReason
    /\ sentinels = 0
    /\ failed = <<>>

\* The consumer asks for the first item: the prompt is built, the sources are
\* serialized and the line is yielded.
YieldMetadata ==
    /\ at = "start"
    /\ out' = Append(out, MetadataLine(search_result))
    /\ at' = "meta"
    /\ UNCHANGED <<ingestVars, chatVars, initVars, splitVars, searchVars, clientVars, provider, search_result, stream, finish_reason,
                   last_finish_reason, received, calls, deltas, terminal,
                   sentinels, failed>>

\* The `if / elif / else` on query_request.provider.
Supported(name) == name = "openai" \/ name = "OpenRouter"

\* The consumer asks for the next item: the provider is selected;
\* stream_openai / stream_openrouter build the client and return gen(), which
\* `async for` starts.  An unsupported provider: a warning, and return.
SelectProvider ==
    /\ at = "meta"
    /\ at' = IF Supported(provider) THEN "create" ELSE "done"
    /\ UNCHANGED <<ingestVars, chatVars, initVars, splitVars, searchVars, clientVars, provider, search_result, out, stream, finish_reason,
                   last_finish_reason, received, calls, deltas, terminal,
                   sentinels, failed>>

\* An exception of the provider leaves gen() and generate_streaming_answer:
\* neither has a handler.
ProviderFailureSwallowed == at' = "done" /\ failed' = <<out>>
ProviderFailure == at' = "raised" /\ failed' = <<out>>

\* AsyncOpenAI(api_key=...) raises: no key was given and none is configured.
ClientRaises ==
    /\ at = "meta"
    /\ Supported(provider)
    /\ ProviderFailure
    /\ UNCHANGED <<ingestVars, chatVars, initVars, splitVars, searchVars, clientVars, provider, search_result, out, stream, finish_reason,
                   last_finish_reason, received, calls, deltas, terminal, sentinels>>

\* stream = await client.chat.completions.create(..., stream=True)
Create ==
    /\ at = "create"
    /\ calls' = calls + 1
    /\ stream' = "open"
    /\ last_finish_reason' = NoReason
    /\ at' = "next"
    /\ UNCHANGED <<ingestVars, chatVars, initVars, splitVars, searchVars, clientVars, provider, search_result, out, finish_reason, received,
                   deltas, terminal, sentinels, failed>>

\* The call is refused (authentication, quota) or cannot be made.
CreateRaises ==
    /\ at = "create"
    /\ calls' = calls + 1
    /\ ProviderFailure
    /\ UNCHANGED <<ingestVars, chatVars, initVars, splitVars, searchVars, clientVars, provider, search_result, out, stream, finish_reason,
                   last_finish_reason, received, deltas, terminal, sentinels>>

\* `async for chunk in stream` receives a chunk: its content is yielded when
\* there is some (gen() stops there, the chunk's finish_reason still unread),
\* else the finish_reason is read and the next chunk awaited.
Chunk(delta_text, reason) ==
    /\ at = "next"
    /\ received < MaxChunks
    /\ received' = received + 1
    /\ deltas' = IF delta_text # NoContent /\ delta_text # <<>>
                   THEN Append(deltas, delta_text) ELSE deltas
    /\ terminal' = IF reason # NoReason THEN reason ELSE terminal
    /\ IF Truthy(delta_text)
         THEN /\ out' = Append(out, delta_text)
              /\ finish_reason' = reason
              /\ at' = "delta"
              /\ UNCHANGED last_finish_reason
         ELSE /\ last_finish_reason' = RecordFinish(last_finish_reason, reason)
              /\ UNCHANGED <<out, finish_reason, at>>
    /\ UNCHANGED <<ingestVars, chatVars, initVars, splitVars, searchVars, clientVars, provider, search_result, stream, calls, sentinels,
                   failed>>

\* The consumer asks for the next item after a delta: the finish_reason of the
\* chunk in hand is read.
ResumeAfterDelta ==
    /\ at = "delta"
    /\ last_finish_reason' = RecordFinish(last_finish_reason, finish_reason)
    /\ finish_reason' = NoReason
    /\ at' = "next"
    /\ UNCHANGED <<ingestVars, chatVars, initVars, splitVars, searchVars, clientVars, provider, search_result, out, stream, received, calls,
                   deltas, terminal, sentinels, failed>>

\* A chunk with no choices: chunk.choices[0] raises IndexError.
ChunkMalformed ==
    /\ at = "next"
    /\ received < MaxChunks
    /\ received' = received + 1
    /\ ProviderFailure
    /\ UNCHANGED <<ingestVars, chatVars, initVars, splitVars, searchVars, clientVars, provider, search_result, out, stream, finish_reason,
                   last_finish_reason, calls, deltas, terminal, sentinels>>

\* The stream raises while the next chunk is awaited (the connection drops,
\* the provider reports an error).
StreamRaises ==
    /\ at = "next"
    /\ stream' = "broken"
    /\ ProviderFailure
    /\ UNCHANGED <<ingestVars, chatVars, initVars, splitVars, searchVars, clientVars, provider, search_result, out, finish_reason,
                   last_finish_reason, received, calls, deltas, terminal, sentinels>>

\* `if last_finish_reason == "length"`
YieldsSentinel(last) == last = "length"

\* The stream is exhausted: the loop ends, and the sentinel is yielded after a
\* length-limited finish; else gen() and generate_streaming_answer return.
StreamEnds ==
    /\ at = "next"
    /\ stream' = "ended"
    /\ IF YieldsSentinel(last_finish_reason)
         THEN /\ out' = Append(out, Truncated)
              /\ sentinels' = sentinels + 1
              /\ at' = "sentinel"
         ELSE /\ at' = "done"
              /\ UNCHANGED <<out, sentinels>>
    /\ UNCHANGED <<ingestVars, chatVars, initVars, splitVars, searchVars, clientVars, provider, search_result, finish_reason,
                   last_finish_reason, received, calls, deltas, terminal, failed>>

\* The consumer asks for the next item after the sentinel: gen() returns.
ResumeAfterSentinel ==
    /\ at = "sentinel"
    /\ at' = "done"
    /\ UNCHANGED <<ingestVars, chatVars, initVars, splitVars, searchVars, clientVars, provider, search_result, out, stream, finish_reason,
                   last_finish_reason, received, calls, deltas, terminal,
                   sentinels, failed>>

\* The client disconnects: StreamingResponse is cancelled and asks for no
\* further item.  The source has no handler for it: no statement of gen() or
\* of generate_streaming_answer runs again.
Disconnect ==
    /\ at \in {"meta", "create", "next", "delta", "sentinel"}
    /\ at' = "cancelled"
    /\ UNCHANGED <<ingestVars, chatVars, initVars, splitVars, searchVars, clientVars, provider, search_result, out, stream, finish_reason,
                   last_finish_reason, received, calls, deltas, terminal,
                   sentinels, failed>>

StreamNext ==
    \/ YieldMetadata
    \/ SelectProvider
    \/ ClientRaises
    \/ Create
    \/ CreateRaises
    \/ \E delta_text \in DeltaContents, reason \in FinishReasons :
          Chunk(delta_text, reason)
    \/ ResumeAfterDelta
    \/ ChunkMalformed
    \/ StreamRaises
    \/ StreamEnds
    \/ ResumeAfterSentinel
    \/ Disconnect

StreamSpec == StreamInit /\ [][StreamNext]_vars

\* ================================================ the front end's consumer
\* requests.post(STREAM_ENDPOINT, ..., stream=True) has answered: the status,
\* and the body as the network will deliver it.
ClientInit ==
    /\ ChatIdle
    /\ IngestIdle
    /\ InitIdle
    /\ SplitIdle
    /\ SearchIdle
    /\ StreamIdle
    /\ status \in {200, 500}
    /\ body \in {Encode(text) : text \in Bodies}
    /\ wire \in Splits(body, MaxPieces)
    /\ arrived = <<>>
    /\ buffer = <<>>
    /\ full_response = <<>>
    /\ client_sources = <<>>
    /\ is_first_chunk = TRUE
    /\ client_at = "reading"
    /\ returned = NoResult

\* `if response.status_code != 200: ... return "", [], error_msg`
ReturnServerError ==
    /\ client_at = "reading"
    /\ status # 200
    /\ client_at' = "returned"
    /\ returned' = [content |-> <<>>, sources |-> <<>>, error |-> "Server error"]
    /\ UNCHANGED <<ingestVars, chatVars, initVars, splitVars, searchVars, streamVars, status, body, wire, arrived, buffer,
                   full_response, client_sources, is_first_chunk>>

\* The first line has arrived: buffer.split('\n', 1), json.loads(first_line)
\* and the `try / except json.JSONDecodeError` around it.  data.get on a value
\* that is no dict raises AttributeError, which only the outer
\* `except Exception` catches.
FirstLineArrived(buf) ==
    LET cut == FirstNewline(buf, 1)
        first_line == SubSeq(buf, 1, cut - 1)
        remaining == SubSeq(buf, cut + 1, Len(buf))
        data == JsonLoads(first_line)
    IN  IF data.kind = "dict"
          THEN /\ client_sources' = IF data.type = "sources" THEN data.data
                                                           ELSE client_sources
               /\ full_response' = full_response \o remaining
               /\ is_first_chunk' = FALSE
               /\ UNCHANGED <<client_at, returned>>
        ELSE IF data.kind = "JSONDecodeError"
          THEN /\ full_response' = full_response \o first_line \o <<"\n">> \o remaining
               /\ is_first_chunk' = FALSE
               /\ UNCHANGED <<client_sources, client_at, returned>>
        ELSE /\ client_at' = "returned"
             /\ returned' = [content |-> <<>>, sources |-> <<>>,
                           error |-> "Unexpected error"]
             /\ UNCHANGED <<client_sources, full_response, is_first_chunk>>

\* One turn of `for chunk in response.iter_content(chunk_size=1024)`: the
\* chunk is decoded (UnicodeDecodeError is caught by `except Exception`), and
\* its text goes to the buffer or to the response.
Receive ==
    /\ client_at = "reading"
    /\ status = 200
    /\ wire # <<>>
    /\ wire' = Tail(wire)
    /\ IF ~Decodable(Head(wire))
         THEN /\ client_at' = "returned"
              /\ returned' = [content |-> <<>>, sources |-> <<>>,
                              error |-> "Unexpected error"]
              /\ UNCHANGED <<arrived, buffer, full_response, client_sources,
                             is_first_chunk>>
         ELSE LET text_chunk == Decode(Head(wire))
              IN  /\ arrived' = arrived \o text_chunk
                  /\ IF is_first_chunk
                       THEN /\ buffer' = buffer \o text_chunk
                            /\ IF FirstNewline(buffer \o text_chunk, 1) > 0
                                 THEN FirstLineArrived(buffer \o text_chunk)
                                 ELSE UNCHANGED <<full_response, client_sources,
                                                  is_first_chunk, client_at, returned>>
                       ELSE /\ full_response' = full_response \o text_chunk
                            /\ UNCHANGED <<buffer, client_sources, is_first_chunk,
                                           client_at, returned>>
    /\ UNCHANGED <<ingestVars, chatVars, initVars, splitVars, searchVars, streamVars, status, body>>

\* iter_content raises (the connection breaks): an `except` clause returns
\* "", [], message.
TransportRaises ==
    /\ client_at = "reading"
    /\ status = 200
    /\ wire # <<>>
    /\ client_at' = "returned"
    /\ returned' = [content |-> <<>>, sources |-> <<>>, error |-> "transport"]
    /\ UNCHANGED <<ingestVars, chatVars, initVars, splitVars, searchVars, streamVars, status, body, wire, arrived, buffer,
                   full_response, client_sources, is_first_chunk>>

\* The body is exhausted: the final render, and
\* `return final_text, sources, None`.
ReturnResponse ==
    /\ client_at = "reading"
    /\ status = 200
    /\ wire = <<>>
    /\ client_at' = "returned"
    /\ returned' = [content |-> clean_and_format_response(full_response),
                  sources |-> client_sources, error |-> NoError]
    /\ UNCHANGED <<ingestVars, chatVars, initVars, splitVars, searchVars, streamVars, status, body, wire, arrived, buffer,
                   full_response, client_sources, is_first_chunk>>

ClientNext ==
    \/ ReturnServerError
    \/ Receive
    \/ TransportRaises
    \/ ReturnResponse

ClientSpec == ClientInit /\ [][ClientNext]_vars

\* ======================================================== hybrid retrieval
\* payload.get("text", "") of point p: every chunk has a text of its own.
TextOf(p) == <<"text", p>>
\* payload.get("source_url", "") of a point without the key.
NoUrl == ""
Payloads(p) == [text : {TextOf(p)}, source_url : Urls \cup {NoUrl}]

\* The orderings of a set.
RECURSIVE Perms(_)
Perms(S) ==
    IF S = {} THEN {<<>>}
    ELSE UNION {{<<x>> \o s : s \in Perms(S \ {x})} : x \in S}

\* The rankings a search can produce: an ordering of some of the points.
Rankings(S) == UNION {Perms(T) : T \in SUBSET S}

Range(list) == {list[n] : n \in 1..Len(list)}

\* Prefetch(query=..., using=..., limit=limit): the best `limit` of a ranking.
Prefetch(ranking, limit) == SubSeq(ranking, 1, Min(limit, Len(ranking)))

\* The rank of a point in a list, from 1 (0: not in the list).
Position(list, p) ==
    IF p \in Range(list) THEN CHOOSE n \in 1..Len(list) : list[n] = p ELSE 0

\* Scores are exact fractions <<numerator, denominator>>.
Add(x, y) == <<x[1] * y[2] + y[1] * x[2], x[2] * y[2]>>
Less(x, y) == x[1] * y[2] < y[1] * x[2]

\* 1 / (rank_constant + rank) for a point of the list, nothing otherwise.
Term(list, p, k) ==
    IF Position(list, p) = 0 THEN <<0, 1>> ELSE <<1, k + Position(list, p)>>

\* FusionQuery(fusion=Fusion.RRF) over the two prefetched lists.
RRFDenseOnly(lists, p, k) == Add(Term(lists[1], p, k), <<0, 1>>)
RRF(lists, p, k) == Add(Term(lists[1], p, k), Term(lists[2], p, k))

\* The points either prefetch returned.
Candidates(lists) == Range(lists[1]) \cup Range(lists[2])

\* The orders the fusion can answer in: by descending score; the request
\* names no second key, so candidates of equal score come in any order.
FusedOrders(lists, k) ==
    {order \in Perms(Candidates(lists)) :
        \A m, n \in 1..Len(order) :
            m < n => ~Less(RRF(lists, order[m], k), RRF(lists, order[n], k))}

\* client.query_points(prefetch=[dense, sparse], query=RRF, limit=top_k): the
\* responses the store can give, each point with its fused score.
query_points(d, sp, limit, k) ==
    LET lists == <<Prefetch(d, limit * 2), Prefetch(sp, limit * 2)>>
    IN  {[n \in 1..Min(limit, Len(order)) |->
             [id |-> order[n], score |-> RRF(lists, order[n], k)]] :
         order \in FusedOrders(lists, k)}

\* The loop over results.points: `if source: contexts.append(text)`.
ContextsOfAll(pts, pl) == [n \in 1..Len(pts) |-> pl[pts[n].id].text]
RECURSIVE Contexts(_, _)
Contexts(pts, pl) ==
    IF pts = <<>> THEN <<>>
    ELSE IF pl[Head(pts).id].source_url # NoUrl
      THEN <<pl[Head(pts).id].text>> \o Contexts(Tail(pts), pl)
    ELSE Contexts(Tail(pts), pl)

\* The loop over results.points: `if source: sources.add(source)`.
SourcesOfAll(pts, pl) == {pl[pts[n].id].source_url : n \in 1..Len(pts)}
Sources(pts, pl) ==
    {pl[pts[n].id].source_url : n \in 1..Len(pts)} \ {NoUrl}

\* A collection, the two rankings of its points for one query (the dense
\* search ranks every point, the sparse search the points it matches), and
\* the query's top_k.
SearchInit ==
    /\ ChatIdle
    /\ IngestIdle
    /\ InitIdle
    /\ SplitIdle
    /\ StreamIdle
    /\ ClientIdle
    /\ \E size \in 0..MaxPoints :
          /\ payload \in {pl \in [1..size -> UNION {Payloads(p) : p \in 1..size}] :
                            \A p \in 1..size : pl[p] \in Payloads(p)}
          /\ dense \in Perms(1..size)
          /\ sparse \in Rankings(1..size)
    /\ top_k \in 1..MaxTopK
    /\ rank_constant \in 0..MaxRankConstant
    /\ results = <<>>
    /\ contexts = <<>>
    /\ found_sources = <<>>
    /\ search_at = "idle"
    /\ evals = 0
    /\ previous = <<>>
    /\ previous_sources = <<>>
    /\ contexts_list = NotBuilt

\* One call of hybrid_search(query_text, top_k) that returns.  list(sources)
\* lists a set: in any order.
hybrid_search ==
    /\ search_at \in {"idle", "returned"}
    /\ evals < MaxEvals
    /\ \E pts \in query_points(dense, sparse, top_k, rank_constant) :
          /\ results' = pts
          /\ contexts' = Contexts(pts, payload)
          /\ found_sources' \in Perms(Sources(pts, payload))
    /\ previous' = results
    /\ previous_sources' = found_sources
    /\ contexts_list' = NotBuilt
    /\ evals' = evals + 1
    /\ search_at' = "returned"
    /\ UNCHANGED <<ingestVars, chatVars, initVars, splitVars, streamVars, clientVars, payload, dense, sparse,
                   top_k, rank_constant>>

\* client.query_points raises (the store does not answer): hybrid_search has
\* no handler, the exception reaches the caller.
QueryPointsRaises ==
    /\ search_at \in {"idle", "returned"}
    /\ evals < MaxEvals
    /\ search_at' = "raised"
    /\ UNCHANGED <<ingestVars, chatVars, initVars, splitVars, streamVars, clientVars, payload, dense, sparse,
                   top_k, rank_constant, results, contexts, found_sources,
                   evals, previous, previous_sources, contexts_list>>

\* zip(contexts.sources, contexts.contexts): pairs up to the shorter list.
Zip(srcs, ctxs) ==
    [n \in 1..Min(Len(srcs), Len(ctxs)) |-> <<srcs[n], ctxs[n]>>]

\* f"- URL: {source}\n Content: {context}"
Entry(source, context) == <<"- URL: ", source, "\n Content: ", context>>

\* contexts_list of build_prompt(query_text, contexts, max_tokens), which the
\* prompt holds joined by blank lines.
build_prompt(srcs, ctxs) ==
    [n \in 1..Len(Zip(srcs, ctxs)) |-> Entry(Zip(srcs, ctxs)[n][1], Zip(srcs, ctxs)[n][2])]

\* generate_answer / generate_streaming_answer build the prompt from the
\* SearchResult hybrid_search returned.
BuildPrompt ==
    /\ search_at = "returned"
    /\ ~contexts_list.built
    /\ contexts_list' = [built |-> TRUE, list |-> build_prompt(found_sources, contexts)]
    /\ UNCHANGED <<ingestVars, chatVars, initVars, splitVars, streamVars, clientVars, payload, dense, sparse,
                   top_k, rank_constant, results, contexts, found_sources,
                   search_at, evals, previous, previous_sources>>

SearchNext ==
    \/ hybrid_search
    \/ QueryPointsRaises
    \/ BuildPrompt

SearchSpec == SearchInit /\ [][SearchNext]_vars

\* ====================================================== splitting a text
\* Texts are sequences of characters over letters and the blank.
Chars == {"a", "b", " "}
\* `separators` of get_text_splitter: of the seventeen, the ones that can
\* occur in a text over Chars, in their order.
Separators == <<" ", "">>

\* _split_text_with_regex(text, separator, keep_separator=True): the text is
\* cut before each separator, which stays at the head of its piece; empty
\* pieces are dropped; the separator "" gives list(text).
RECURSIVE SplitWithRegex(_, _)
SplitWithRegex(text, separator) ==
    IF separator = "" THEN [n \in 1..Len(text) |-> <<text[n]>>]
    ELSE LET cuts == {n \in 2..Len(text) : text[n] = separator}
         IN  IF cuts = {} THEN (IF text = <<>> THEN <<>> ELSE <<text>>)
             ELSE LET c == CHOOSE n \in cuts : \A m \in cuts : m <= n
                  IN  SplitWithRegex(SubSeq(text, 1, c - 1), separator)
                         \o <<SubSeq(text, c, Len(text))>>

RECURSIVE Concat(_)
Concat(pieces) ==
    IF pieces = <<>> THEN <<>> ELSE Head(pieces) \o Concat(Tail(pieces))

\* _join_docs(docs, ""): the pieces joined, stripped (strip_whitespace is
\* True by default), None when nothing is left.
JoinDocsUnstripped(current) ==
    IF Concat(current) = <<>> THEN <<>> ELSE <<Concat(current)>>
JoinDocs(current) ==
    IF Strip(Concat(current)) = <<>> THEN <<>> ELSE <<Strip(Concat(current))>>

\* The `while` of _merge_splits: pieces leave the head of current_doc until
\* what is left is no longer than the overlap and the next piece fits.
RECURSIVE Overlap(_, _)
Overlap(current, len) ==
    LET total == Len(Concat(current))
    IN  IF total > ChunkOverlap \/ (total + len > ChunkSize /\ total > 0)
          THEN Overlap(Tail(current), len)
          ELSE current

\* _merge_splits(splits, ""): pieces are gathered up to chunk_size; a chunk
\* that is full is joined and emitted, and its tail is kept as the overlap.
RECURSIVE MergeSplits(_, _)
MergeSplits(splits, current) ==
    IF splits = <<>> THEN JoinDocs(current)
    ELSE LET d == Head(splits)
         IN  IF Len(Concat(current)) + Len(d) > ChunkSize /\ current # <<>>
               THEN JoinDocs(current)
                       \o MergeSplits(Tail(splits), Append(Overlap(current, Len(d)), d))
               ELSE MergeSplits(Tail(splits), Append(current, d))

\* The first separator of the list found in the text ("" is always found).
RECURSIVE Pick(_, _, _)
Pick(text, separators, n) ==
    IF n >= Len(separators) \/ separators[n] = "" THEN n
    ELSE IF \E m \in 1..Len(text) : text[m] = separators[n] THEN n
    ELSE Pick(text, separators, n + 1)

\* RecursiveCharacterTextSplitter._split_text(text, separators): the loop
\* over the splits is Walk, with _good_splits in `good`.
RECURSIVE SplitRecursively(_, _)
RECURSIVE Walk(_, _, _)
Walk(splits, good, new_separators) ==
    LET merged == IF good = <<>> THEN <<>> ELSE MergeSplits(good, <<>>)
    IN  IF splits = <<>> THEN merged
        ELSE IF Len(Head(splits)) < ChunkSize
          THEN Walk(Tail(splits), Append(good, Head(splits)), new_separators)
        ELSE merged
               \o (IF new_separators = <<>> THEN <<Head(splits)>>
                   ELSE SplitRecursively(Head(splits), new_separators))
               \o Walk(Tail(splits), <<>>, new_separators)

SplitRecursively(text, separators) ==
    LET n == Pick(text, separators, 1)
        new_separators == IF separators[n] = "" THEN <<>>
                          ELSE SubSeq(separators, n + 1, Len(separators))
    IN  Walk(SplitWithRegex(text, separators[n]), <<>>, new_separators)

\* A content process_document hands to the splitter: not empty
\* (`if not content: return`).
SplitInit ==
    /\ ChatIdle
    /\ IngestIdle
    /\ InitIdle
    /\ SearchIdle
    /\ StreamIdle
    /\ ClientIdle
    /\ page_content \in SeqsUpTo(Chars, MaxChars) \ {<<>>}
    /\ split_chunks = <<>>
    /\ split_at = "input"

\* chunks = text_splitter.split_text(content)
SplitText ==
    /\ split_at = "input"
    /\ split_chunks' = SplitRecursively(page_content, Separators)
    /\ split_at' = "split"
    /\ UNCHANGED <<ingestVars, chatVars, initVars, searchVars, streamVars, clientVars,
                   page_content>>

SplitNext == SplitText

SplitSpec == SplitInit /\ [][SplitNext]_vars

\* ============================================ setting up the collection
Procs == 1..MaxProcs

\* A store that has the collection as initialize leaves it, or has none yet;
\* no process has called initialize.
InitInit ==
    /\ ChatIdle
    /\ IngestIdle
    /\ SplitIdle
    /\ SearchIdle
    /\ StreamIdle
    /\ ClientIdle
    /\ coll_exists \in BOOLEAN
    /\ coll_index = coll_exists
    /\ init_pc = [p \in Procs |-> "idle"]
    /\ exists = [p \in Procs |-> FALSE]
    /\ init_calls = [p \in Procs |-> 0]
    /\ init_faults = 0

\* A process calls initialize (get_managers of a flow, or the start of the
\* API): `exists = await self.client.collection_exists(self.collection)`.
CollectionExists(p) ==
    /\ init_pc[p] \in {"idle", "done", "conflict", "raised"}
    /\ init_calls[p] < MaxInitCalls
    /\ init_calls' = [init_calls EXCEPT ![p] = @ + 1]
    /\ exists' = [exists EXCEPT ![p] = coll_exists]
    /\ init_pc' = [init_pc EXCEPT ![p] = "checked"]
    /\ UNCHANGED <<ingestVars, chatVars, splitVars, searchVars, streamVars, clientVars,
                   coll_exists, coll_index, init_faults>>

\* `else: logger.info("Qdrant collection already exists")`
AlreadyExists(p) ==
    /\ init_pc[p] = "checked"
    /\ exists[p]
    /\ init_pc' = [init_pc EXCEPT ![p] = "done"]
    /\ UNCHANGED <<ingestVars, chatVars, splitVars, searchVars, streamVars, clientVars,
                   coll_exists, coll_index, exists, init_calls, init_faults>>

\* What create_collection does on a store that has the collection by now: the
\* store refuses, and `except Exception: ... raise` hands the error on.
CreateExisting(p) == init_pc' = [init_pc EXCEPT ![p] = "conflict"]

\* `if not exists: await self.client.create_collection(...)`
CreateCollection(p) ==
    /\ init_pc[p] = "checked"
    /\ ~exists[p]
    /\ IF coll_exists
         THEN CreateExisting(p) /\ UNCHANGED coll_exists
         ELSE /\ coll_exists' = TRUE
              /\ init_pc' = [init_pc EXCEPT ![p] = "created"]
    /\ UNCHANGED <<ingestVars, chatVars, splitVars, searchVars, streamVars, clientVars,
                   coll_index, exists, init_calls, init_faults>>

\* `await self.client.create_payload_index(..., wait=True)`, then the log.
CreatePayloadIndex(p) ==
    /\ init_pc[p] = "created"
    /\ coll_index' = TRUE
    /\ init_pc' = [init_pc EXCEPT ![p] = "done"]
    /\ UNCHANGED <<ingestVars, chatVars, splitVars, searchVars, streamVars, clientVars,
                   coll_exists, exists, init_calls, init_faults>>

\* A call to the store fails (it does not answer): logged and raised again.
InitializeRaises(p) ==
    /\ init_pc[p] \in {"checked", "created"}
    /\ init_pc[p] = "checked" => ~exists[p]
    /\ init_faults < MaxFaults
    /\ init_faults' = init_faults + 1
    /\ init_pc' = [init_pc EXCEPT ![p] = "raised"]
    /\ UNCHANGED <<ingestVars, chatVars, splitVars, searchVars, streamVars, clientVars,
                   coll_exists, coll_index, exists, init_calls>>

InitNext ==
    \E p \in Procs :
        \/ CollectionExists(p)
        \/ AlreadyExists(p)
        \/ CreateCollection(p)
        \/ CreatePayloadIndex(p)
        \/ InitializeRaises(p)

InitSpec == InitInit /\ [][InitNext]_vars

\* ================================================== the chat front end
\* A prompt is a list of words.  Words of the users: one of ref_words, one
\* that holds a ref_word ('it' in 'with'), one that holds none.
RefWord == "why"
HoldsRefWord == "with"
PlainWord == "data"

\* A short prompt, a long one without reference, a long one with reference.
Prompts ==
    {<<RefWord>>,
     [n \in 1..8 |-> PlainWord],
     [n \in 1..8 |-> IF n = 8 THEN HoldsRefWord ELSE PlainWord]}

\* is_short = len(prompt.split()) < 8
is_short(prompt) == Len(prompt) < 8
\* has_reference = any(word in prompt.lower() for word in ref_words)
has_reference(prompt) ==
    \E n \in 1..Len(prompt) : prompt[n] \in {RefWord, HoldsRefWord}

\* The greeting initialize_session_state puts into a new session.
Greeting == [role |-> "assistant", content |-> <<"Hello!">>]
\* The full_response of an answered request.
Answer == <<"answer">>

\* initialize_session_state() in the first run of the script.
ChatInit ==
    /\ IngestIdle
    /\ InitIdle
    /\ SplitIdle
    /\ SearchIdle
    /\ StreamIdle
    /\ ClientIdle
    /\ messages = <<Greeting>>
    /\ query_to_send = NoQuery
    /\ read = NotRead

\* `if config["use_context"] and len(st.session_state.messages) >= 3`, then
\* `if is_short or has_reference`.
Attaches(history, prompt, use_context) ==
    /\ use_context
    /\ Len(history) >= 3
    /\ (is_short(prompt) \/ has_reference(prompt))

\* The run of the script on a prompt, up to the call of stream_api_response:
\* the user message is appended and query_to_send is built.
Ask(prompt, use_context, history) ==
    LET n == Len(history)
    IN  IF Attaches(history, prompt, use_context)
          THEN /\ query_to_send' = [context |-> TRUE,
                                     last_user_msg |-> history[n - 2].content,
                                     last_assistant_msg |-> history[n - 1].content,
                                     prompt |-> prompt]
               /\ read' = [attached |-> TRUE, user |-> history[n - 2],
                           assistant |-> history[n - 1], current |-> history[n]]
          ELSE /\ query_to_send' = [NoQuery EXCEPT !.prompt = prompt]
               /\ read' = NotRead

\* A prompt is answered: the assistant message is appended, st.rerun().
Answered(prompt, use_context) ==
    /\ Len(messages) + 2 <= MaxMessages
    /\ LET history == Append(messages, [role |-> "user", content |-> prompt])
       IN  /\ Ask(prompt, use_context, history)
           /\ messages' = Append(history, [role |-> "assistant", content |-> Answer])
    /\ UNCHANGED <<ingestVars, initVars, splitVars, searchVars, streamVars, clientVars>>

\* The request fails: `if error: st.error(error); st.stop()`, the user
\* message stays in the history without an answer.
Failed(prompt, use_context) ==
    /\ Len(messages) + 1 <= MaxMessages
    /\ LET history == Append(messages, [role |-> "user", content |-> prompt])
       IN  /\ Ask(prompt, use_context, history)
           /\ messages' = history
    /\ UNCHANGED <<ingestVars, initVars, splitVars, searchVars, streamVars, clientVars>>

\* The Clear Conversation button: `st.session_state.messages = []`, st.rerun().
ClearConversation ==
    /\ messages' = <<>>
    /\ UNCHANGED <<ingestVars, initVars, splitVars, searchVars, streamVars, clientVars,
                   query_to_send, read>>

ChatNext ==
    \/ \E prompt \in Prompts, use_context \in BOOLEAN : Answered(prompt, use_context)
    \/ \E prompt \in Prompts, use_context \in BOOLEAN : Failed(prompt, use_context)
    \/ ClearConversation

ChatSpec == ChatInit /\ [][ChatNext]_vars

\* ---------------------------------------------------------------- claims
\* The content a stored hash was computed from.
ContentOf(hash) == hash[2]

AggregateReturned == flow = "checkpoint" /\ j > Len(Indicators)

\* C1: every Document row carries the hash of content whose chunks an upsert
\* has stored under the row's id: the hash is written only after the upsert.
C1_HashOnlyAfterUpsert ==
    \A n \in 1..Len(documents) :
        split_text(ContentOf(documents[n].hash)) # <<>>
            => <<DocId(n), documents[n].hash>> \in upserted

\* C2: when aggregate_and_ingest has returned for a batch, every point of the
\* vector store that carries the id of a document classified 'update' in that
\* batch is a chunk of that document's new content.
C2_NoStaleChunks ==
    AggregateReturned =>
        \A k \in DOMAIN tasks :
            tasks[k].res.action = "update" =>
                \A p \in DOMAIN points :
                    p.document_id = tasks[k].res.doc_id
                        => p.text[1] = batch[k].content

\* C3: the metadata store holds at most one Document row per url (all rows
\* belong to the one source both flows resolve).
C3_OneRowPerUrl ==
    \A m, n \in 1..Len(documents) :
        documents[m].url = documents[n].url => m = n

\* C4: a run that loads what the previous, finished run loaded, with no store
\* call ever failing, returns None from every process_document and calls no
\* upsert, no delete and no write.
C4_SecondRunIdle ==
    (repeated /\ faults = 0) =>
        /\ runLog = {}
        /\ \A k \in DOMAIN tasks :
              tasks[k].pc = "completed" => tasks[k].res = None

\* C5: a document that was in a batch whose upsert raised, and whose chunks
\* have not been stored since, is never classified unchanged by a later run.
C5_LostReclassified ==
    flow = "map" =>
        \A k \in DOMAIN tasks :
            batch[k] \in lost => tasks[k].class # "unchanged"

\* C6: once qdrant.upsert has raised in aggregate_and_ingest, the run has
\* failed with that exception and the checkpoint loop has made no call.
C6_NoPartialCheckpoint ==
    "upsert_failed" \in runLog =>
        flow = "failed" /\ err = "upsert" /\ j = 1

\* C6 witness: the upsert of a batch with two documents to checkpoint raised.
C6_Witness ==
    /\ "upsert_failed" \in runLog
    /\ flow = "failed"
    /\ Len(Indicators) = 2

\* C7: when a task run of a batch has failed on every attempt, the run does
\* not fail: aggregate_and_ingest runs on the other results of the batch (their
\* chunks are stored) and the failure does not reach the caller of the flow.
C7_FailureIsolated ==
    (flow # "map" /\ \E k \in DOMAIN tasks : tasks[k].pc = "failed") =>
        /\ flow # "failed"
        /\ \A k \in DOMAIN tasks :
              tasks[k].res.n_chunks > 0
                  => <<tasks[k].res.doc_id, tasks[k].res.new_hash>> \in upserted

\* C8: a completed process_document of a non-empty document classified it
\* 'new' exactly when the store held no row for its url when it looked, 'update'
\* only when it held a row with another hash, unchanged only when it held a row
\* with the same hash; 'new' returns the id of the row it inserted, 'update'
\* the id of a row of the url, unchanged returns None.
C8_Classification ==
    \A k \in DOMAIN tasks :
        (tasks[k].pc = "completed" /\ batch[k].content # Empty) =>
            LET t == tasks[k]
                new_hash == Sha256(batch[k].content)
            IN  /\ t.class \in {"new", "update", "unchanged"}
                /\ (t.class = "new") <=> (t.existed = {})
                /\ (t.class = "update") => \E h \in t.existed : h # new_hash
                /\ (t.class = "unchanged") => new_hash \in t.existed
                /\ (t.class = "new") =>
                      /\ t.res.action = "new"
                      /\ t.res.doc_id[2] \in RowsByUrl(batch[k].url)
                      /\ documents[t.res.doc_id[2]].hash = new_hash
                /\ (t.class = "update") =>
                      /\ t.res.action = "update"
                      /\ t.res.doc_id[2] \in RowsByUrl(batch[k].url)
                /\ (t.class = "unchanged") => t.res = None

\* C9: an empty document makes no store call, returns None, is classified
\* skip, and leaves no row and no result for aggregate_and_ingest.
C9_EmptySkipped ==
    /\ \A k \in DOMAIN tasks :
          batch[k].content = Empty =>
              /\ tasks[k].calls = {}
              /\ tasks[k].res = None
              /\ tasks[k].pc \in {"run", "completed"}
              /\ tasks[k].class \in {"", "skip"}
              /\ \A n \in DOMAIN KeptTasks : KeptTasks[n] # k
    /\ \A n \in 1..Len(documents) : documents[n].hash # Sha256(Empty)

\* C9 witness: aggregate_and_ingest has returned for a batch of an empty
\* document and a document whose chunks were stored.
C9_Witness ==
    /\ AggregateReturned
    /\ \E k \in DOMAIN tasks :
          batch[k].content = Empty /\ tasks[k].pc = "completed"
    /\ \E k \in DOMAIN tasks : tasks[k].res.n_chunks > 0
    /\ "upsert" \in runLog

C11_NoSourceNoIngestion ==
    ((run > 0 /\ SourceName \notin sources) \/ "no_source" \in runLog) =>
        /\ flow = "failed"
        /\ err = "source"
        /\ docs = <<>>
        /\ tasks = <<>>
        /\ runLog = {"no_source"}
        /\ (SourceName \notin sources => documents = <<>> /\ points = EmptyBag)

\* C11 witness: a run was started while the source name is not registered.
C11_Witness ==
    /\ SourceName \notin sources
    /\ run > 0
    /\ flow = "failed"
    /\ err = "source"

\* The points of the vector store that carry a document id, as a bag.
ChunksOf(doc_id) ==
    LET own == {p \in DOMAIN points : p.document_id = doc_id}
    IN  [p \in own |-> points[p]]

\* C12: when url u1, first ingested with content "a" (one chunk, stored under
\* the id of row 1, the only row, which held the hash of "a" when the second
\* run looked), is the only document of a second run with content "bb", and
\* that run has finished, the document was classified 'update', the vector
\* store holds for that id exactly the chunks of "bb" (none of "a"), and row 1
\* carries the hash of "bb".
C12_UpdateScenario ==
    LET X == [url |-> "u1", content |-> "bb"]
        d == DocId(1)
    IN  (/\ run = 2
         /\ flow = "finished"
         /\ docs = <<X>>
         /\ Len(documents) = 1
         /\ documents[1].url = X.url
         /\ tasks[1].existed = {Sha256("a")}
         /\ <<d, Sha256("a")>> \in upserted)
        =>
        /\ tasks[1].class = "update"
        /\ ChunksOf(d) =
              AddPoints(EmptyBag, PointsOf(Result(d, X.url, X.content, "update").chunks,
                                           Result(d, X.url, X.content, "update").metadatas))
        /\ documents[1].hash = Sha256(X.content)

\* ------------------------------------------------------ claims: streaming
\* The line breaks of an item.
Newlines(item) == Cardinality({n \in 1..Len(item) : item[n] = "\n"})

\* An item that opens as the serialized sources object does.
IsSourcesLine(item) == item # <<>> /\ Head(item) = SourcesOpening

\* C13: once generate_streaming_answer has yielded anything, its first item is
\* the sources line, no other item is one, the line holds exactly one line
\* break, which ends it (whatever the urls hold), and it was yielded before
\* any call to the provider began; for every provider value.
C13_MetadataLineFirst ==
    /\ at = "start" => (out = <<>> /\ calls = 0)
    /\ at = "meta" => (Len(out) = 1 /\ calls = 0 /\ stream = "none")
    /\ at # "start" =>
          /\ Len(out) >= 1
          /\ IsSourcesLine(out[1])
          /\ Cardinality({n \in 1..Len(out) : IsSourcesLine(out[n])}) = 1
          /\ Newlines(out[1]) = 1
          /\ out[1][Len(out[1])] = "\n"

\* C13 witness: the stream of an unsupported provider has ended, its only item
\* the line of a SearchResult with a url that holds a line break.
C13_Witness ==
    /\ ~Supported(provider)
    /\ at = "done"
    /\ Len(out) = 1
    /\ \E n \in 1..Len(search_result) : Newlines(search_result[n]) > 0

\* C14: the items yielded after the sources line, the sentinel apart, are the
\* non-empty content deltas the provider has produced, one item per delta, in
\* order and unchanged.
C14_DeltasForwarded ==
    at # "start" => SubSeq(out, 2, Len(out) - sentinels) = deltas

\* C14 witness: an answer of two deltas, one chunk without content skipped,
\* has ended with the sentinel.
C14_Witness ==
    /\ at = "done"
    /\ Len(deltas) = 2
    /\ received = 3
    /\ sentinels = 1

\* C15: the sentinel is yielded at most once, only when the last finish reason
\* the provider reported is 'length', and then it is the last item; a stream
\* that has ended after a 'length' finish has yielded it.
C15_TruncationSentinel ==
    /\ sentinels <= 1
    /\ terminal # "length" => sentinels = 0
    /\ sentinels = 1 =>
          /\ out[Len(out)] = Truncated
          /\ at \in {"sentinel", "done", "cancelled"}
    /\ (at = "done" /\ terminal = "length") => sentinels = 1

\* C15 witness: a stream whose chunk with the 'length' finish was followed by
\* a chunk without finish reason has ended with the sentinel.
C15_Witness ==
    /\ at = "done"
    /\ sentinels = 1
    /\ Len(deltas) = 1
    /\ received = 3
    /\ last_finish_reason = "length"

C16_UnparsedPrefixKept ==
    LET cut == FirstNewline(arrived, 1)
        data == JsonLoads(SubSeq(arrived, 1, cut - 1))
    IN  (cut > 0 /\ ~(data.kind = "dict" /\ data.type = "sources")) =>
            /\ full_response = arrived
            /\ client_at = "returned" =>
                  \/ returned.error = "transport"
                  \/ /\ returned.error = NoError
                     /\ returned.content = clean_and_format_response(arrived)


\* ------------------------------------------------- claims: the retrieval
\* The two candidate lists of the query.
prefetch == <<Prefetch(dense, top_k * 2), Prefetch(sparse, top_k * 2)>>

Same(x, y) == x[1] * y[2] = y[1] * x[2]

\* The sum of 1 / (rank_constant + rank) over the lists holding the candidate.
Reciprocal(p) ==
    LET rd == Position(prefetch[1], p)
        rs == Position(prefetch[2], p)
        k == rank_constant
    IN  IF rd > 0 /\ rs > 0 THEN <<(k + rd) + (k + rs), (k + rd) * (k + rs)>>
        ELSE IF rd > 0 THEN <<1, k + rd>>
        ELSE <<1, k + rs>>

HasSource(point) == payload[point.id].source_url # NoUrl

\* C19: what hybrid_search returned is the reciprocal rank fusion of the two
\* candidate lists: the points are distinct candidates of either list, each
\* with the sum of 1 / (rank_constant + rank) over the lists holding it (one
\* term for a candidate of one list only), in descending order of that score,
\* the best top_k of the candidates; and the contexts are the texts of these
\* points (of those with a source) in that order.
C19_ReciprocalRankFusion ==
    evals >= 1 =>
        LET ids == {results[n].id : n \in 1..Len(results)}
            kept == SelectSeq(results, HasSource)
        IN  /\ ids \subseteq Candidates(prefetch)
            /\ Cardinality(ids) = Len(results)
            /\ Len(results) = Min(top_k, Cardinality(Candidates(prefetch)))
            /\ \A n \in 1..Len(results) :
                  Same(results[n].score, Reciprocal(results[n].id))
            /\ \A m, n \in 1..Len(results) :
                  m < n => ~Less(Reciprocal(results[m].id), Reciprocal(results[n].id))
            /\ \A p \in Candidates(prefetch) \ ids : \A n \in 1..Len(results) :
                  ~Less(Reciprocal(results[n].id), Reciprocal(p))
            /\ contexts = [n \in 1..Len(kept) |-> payload[kept[n].id].text]

\* C19 witness: three candidates, top_k 2: a candidate of both lists came
\* first, a candidate of one list only second with a lower score, the third
\* was cut.
C19_Witness ==
    /\ evals >= 1
    /\ Cardinality(Candidates(prefetch)) = 3
    /\ Len(results) = 2
    /\ Position(prefetch[1], results[1].id) > 0
    /\ Position(prefetch[2], results[1].id) > 0
    /\ Position(prefetch[2], results[2].id) = 0
    /\ Less(results[2].score, results[1].score)
    /\ Len(contexts) = 2

\* C20: of two returned candidates, one in only one list at rank r and one at
\* rank r in a list and also in the other list, the first has the strictly
\* lower fused score; and a second evaluation of the same two rankings
\* answers in the order of the first.
C20_SingleListLowerSameOrder ==
    /\ \A m, n \in 1..Len(results) :
          LET md == Position(prefetch[1], results[m].id)
              ms == Position(prefetch[2], results[m].id)
              nd == Position(prefetch[1], results[n].id)
              ns == Position(prefetch[2], results[n].id)
          IN  (/\ (md = 0) # (ms = 0)
               /\ nd > 0 /\ ns > 0
               /\ md + ms \in {nd, ns}) =>
                  Less(results[m].score, results[n].score)
    /\ (evals >= 2 /\ search_at = "returned") => results = previous

\* The returned points whose payload carries the url.
ReturnedWith(url) == {n \in 1..Len(results) : payload[results[n].id].source_url = url}

\* C21: every source url of a returned context is listed exactly once in
\* sources, however many returned points carry it, and every url listed is
\* the source_url of a returned point that gave a context.
C21_SourcesOnce ==
    evals >= 1 =>
        /\ \A n \in 1..Len(results) :
              HasSource(results[n]) =>
                 Cardinality({m \in 1..Len(found_sources) :
                    found_sources[m] = payload[results[n].id].source_url}) = 1
        /\ \A m \in 1..Len(found_sources) :
              \E n \in ReturnedWith(found_sources[m]) :
                 /\ HasSource(results[n])
                 /\ payload[results[n].id].text \in Range(contexts)

\* C21 witness: two returned points share their url, which is listed once.
C21_Witness ==
    /\ evals >= 1
    /\ Len(contexts) = 2
    /\ Cardinality(ReturnedWith("u1")) = 2
    /\ found_sources = <<"u1">>

\* C22: a returned point without source_url gives neither a context nor a
\* source; the others give their texts, in the order of the fusion; there are
\* at most top_k contexts, and none (with no source) when there is no
\* candidate.
C22_Unattributable ==
    evals >= 1 =>
        LET kept == SelectSeq(results, HasSource)
        IN  /\ \A n \in 1..Len(results) :
                  ~HasSource(results[n]) =>
                     payload[results[n].id].text \notin Range(contexts)
            /\ NoUrl \notin Range(found_sources)
            /\ Len(contexts) = Len(kept)
            /\ \A n \in 1..Len(kept) : contexts[n] = TextOf(kept[n].id)
            /\ Len(contexts) <= top_k
            /\ Candidates(prefetch) = {} => (contexts = <<>> /\ found_sources = <<>>)

\* C22 witness: of two returned points the first has no source_url: one
\* context, the second point's.
C22_Witness ==
    /\ evals >= 1
    /\ search_at = "returned"
    /\ Len(results) = 2
    /\ ~HasSource(results[1])
    /\ contexts = <<TextOf(results[2].id)>>
    /\ Len(found_sources) = 1

\* C22 witness of the edge: a search over no candidate returned.
C22_WitnessEmpty ==
    /\ evals >= 1
    /\ search_at = "returned"
    /\ Candidates(prefetch) = {}

\* C23: two calls that got the same points from the store return the same
\* list of sources.
C23_SourcesOrderFixed ==
    (evals >= 2 /\ search_at = "returned" /\ results = previous) =>
        found_sources = previous_sources

\* ------------------------------------------------ claims: runs and retries
\* C24: a run that ends returns the counts of the documents it classified
\* new, updated, unchanged and skipped, which sum to the number of documents
\* fetched.
C24_RunReturnsCounts ==
    flow = "finished" =>
        /\ flow_return.kind = "counts"
        /\ flow_return.new + flow_return.updated + flow_return.unchanged
              + flow_return.skipped = Len(docs)

\* ------------------------------------------------- claims: the splitter
\* The chunks laid over the text from its first character to its last, each
\* beginning inside or right after the one before: every character is in a
\* chunk, and the chunks less their overlaps spell the text.
Covers(list, text) ==
    \E start \in [1..Len(list) -> 1..Len(text)] :
        /\ Len(list) > 0
        /\ start[1] = 1
        /\ start[Len(list)] + Len(list[Len(list)]) - 1 = Len(text)
        /\ \A n \in 1..Len(list) :
              /\ start[n] + Len(list[n]) - 1 <= Len(text)
              /\ SubSeq(text, start[n], start[n] + Len(list[n]) - 1) = list[n]
        /\ \A n \in 1..(Len(list) - 1) :
              /\ start[n] <= start[n + 1]
              /\ start[n + 1] <= start[n] + Len(list[n])

\* C25: the chunks of a content cover every character of it, and none is
\* longer than chunk_size.
C25_ChunksCoverContent ==
    split_at = "split" =>
        /\ Covers(split_chunks, page_content)
        /\ \A n \in 1..Len(split_chunks) : Len(split_chunks[n]) <= ChunkSize

\* ----------------------------------------- claims: setting up the collection
\* C26: no call of initialize fails because the collection exists already,
\* and once a call has returned the collection exists with its document_id
\* index.
C26_InitializeIdempotent ==
    \A p \in Procs :
        /\ init_pc[p] # "conflict"
        /\ init_pc[p] = "done" => (coll_exists /\ coll_index)

\* ------------------------------------------- claims: barrier and ordering
\* C27: where qdrant.upsert of a batch has been started, every task run of
\* the batch had returned or finally failed; and where a checkpoint write of
\* the batch has been started, the upsert of the batch has stored the chunks
\* of every document of the batch that carries chunks.
C27_Barrier ==
    /\ (\/ flow = "checkpoint" /\ AllPoints(Indicators) # <<>>
        \/ flow = "failed" /\ err = "upsert") =>
           \A k \in DOMAIN tasks : tasks[k].pc \in {"completed", "failed"}
    /\ (flow = "checkpoint" /\ j > 1) =>
           /\ "upsert_failed" \notin runLog
           /\ \A n \in DOMAIN Indicators :
                 Indicators[n].n_chunks > 0 =>
                    /\ <<Indicators[n].doc_id, Indicators[n].new_hash>> \in upserted
                    /\ \E q \in DOMAIN points :
                          /\ q.document_id = Indicators[n].doc_id
                          /\ <<"sha256", q.text[1]>> = Indicators[n].new_hash

\* C27 witness: a batch of two documents, both with chunks, at its second
\* checkpoint write.
C27_Witness ==
    /\ flow = "checkpoint"
    /\ j = 2
    /\ Len(Indicators) = 2
    /\ \A n \in DOMAIN Indicators : Indicators[n].n_chunks > 0

\* C28: the vector store never holds, under one document id, chunks of two
\* different contents (the old and the new one); no chunk at all is allowed.
C28_NoOldBesideNew ==
    \A p, q \in DOMAIN points :
        p.document_id = q.document_id => p.text[1] = q.text[1]

\* ------------------------------------------------ claims: failing store calls
\* C29: a task run one of whose store calls failed does not go on as if the
\* call had succeeded: it is not classified by the failed lookup, and it
\* returns no chunks after the failed delete; it is run again or has failed.
C29_FailedCallNotTakenAsSuccess ==
    \A k \in DOMAIN tasks :
        tasks[k].fault # "" =>
            /\ tasks[k].pc \in {"run", "failed"}
            /\ tasks[k].class = ""
            /\ tasks[k].res = None

UnchangedInert ==
    \A k \in DOMAIN tasks :
        tasks[k].class = "unchanged" =>
            /\ tasks[k].pc = "completed"
            /\ Sha256(batch[k].content) \in tasks[k].existed
            /\ tasks[k].calls = {"get_document_by_url"}
            /\ tasks[k].res = None
            /\ \A n \in DOMAIN KeptTasks : KeptTasks[n] # k

\* The step in which a task run is classified unchanged.
UnchangedStep ==
    \A k \in DOMAIN tasks :
        (/\ k \in DOMAIN tasks'
         /\ tasks[k].class = ""
         /\ tasks'[k].class = "unchanged") =>
            /\ documents' = documents
            /\ sources' = sources
            /\ points' = points
            /\ upserted' = upserted
            /\ runLog' = runLog

\* C31: a task run that classifies its document unchanged (a row of the url
\* holds the same hash) has made the lookup and no other store call, splits
\* nothing and returns None, so aggregate_and_ingest gets no chunk and no
\* indicator from it; and the step that classifies it leaves every row of the
\* metadata store and every point of the vector store as they were.
C31_UnchangedIsInert == [](UnchangedInert) /\ [][UnchangedStep]_vars

\* C31 witness: aggregate_and_ingest has returned for a batch of a document
\* classified unchanged and a document whose chunks were stored.
C31_Witness ==
    /\ AggregateReturned
    /\ \E k \in DOMAIN tasks : tasks[k].class = "unchanged"
    /\ \E k \in DOMAIN tasks : tasks[k].res.n_chunks > 0
    /\ "upsert" \in runLog

\* ------------------------------------------------- claims: the bulk upsert
\* aggregate_and_ingest has run for the batch: it is writing its checkpoints
\* or has returned, or its upsert raised.
AggregateRan == flow = "checkpoint" \/ (flow = "failed" /\ err = "upsert")

\* The chunks of the documents of the batch classified new or update, as the
\* points an upsert makes of them, in the order of the batch.
RECURSIVE ChunksOfBatch(_)
ChunksOfBatch(k) ==
    IF k > Len(tasks) THEN <<>>
    ELSE (IF tasks[k].res.action \in {"new", "update"}
            THEN [c \in 1..Len(split_text(batch[k].content)) |->
                    [document_id |-> tasks[k].doc_id,
                     text        |-> split_text(batch[k].content)[c],
                     source_url  |-> batch[k].url]]
            ELSE <<>>) \o ChunksOfBatch(k + 1)

\* C32: for a batch, qdrant.upsert is called at most once; when
\* aggregate_and_ingest has run, it was called once, with the chunks of all
\* the new and update documents of the batch together, if the batch has a
\* chunk, and not at all if it has none, and then aggregate_and_ingest goes on
\* to its checkpoints without error.
C32_OneBulkUpsert ==
    /\ Len(upsert_calls) <= 1
    /\ AggregateRan =>
          IF ChunksOfBatch(1) # <<>>
            THEN upsert_calls = <<ChunksOfBatch(1)>>
            ELSE upsert_calls = <<>> /\ flow = "checkpoint" /\ err = "none"
    /\ (flow = "finished" /\ docs # <<>> /\ ChunksOfBatch(1) = <<>>) =>
          upsert_calls = <<>> /\ err = "none"

\* C32 witness: one upsert was made for a batch of two documents with chunks.
C32_Witness ==
    /\ AggregateReturned
    /\ Len(upsert_calls) = 1
    /\ Len(Indicators) = 2
    /\ \A n \in DOMAIN Indicators : Indicators[n].n_chunks > 0

\* C32 witness of the edge: aggregate_and_ingest has returned for a batch of
\* a new document without chunks: a checkpoint was written, no upsert made.
C32_WitnessNoChunks ==
    /\ AggregateReturned
    /\ Len(Indicators) >= 1
    /\ upsert_calls = <<>>

\* ------------------------------------------------- claims: a stopped run
\* The run after the one that was stopped.
AfterStop == crashed # {} /\ flow \in {"map", "checkpoint", "finished"}

\* The chunks of a content under a document id, as the vector store holds them.
Restored(c) ==
    AddPoints(EmptyBag,
              PointsOf(Result(c.doc_id, c.url, c.content, "update").chunks,
                       Result(c.doc_id, c.url, c.content, "update").metadatas))

\* C33: when the run was stopped after the delete of an 'update' document and
\* before the upsert of its batch, the vector store holds no chunk of the
\* document and its row the old hash, not the new one; in the next run a task
\* run of the same document that classifies it classifies it 'update'; and
\* when that run has finished over a list holding the document, the vector
\* store holds for it exactly the chunks of its content.
C33_StoppedUpdateRepaired ==
    \A c \in crashed :
        /\ (flow = "failed" /\ err = "stopped") =>
              /\ ChunksOf(c.doc_id) = EmptyBag
              /\ documents[c.doc_id[2]].hash = c.old_hash
              /\ c.old_hash # Sha256(c.content)
        /\ (AfterStop /\ flow = "map") =>
              \A k \in DOMAIN tasks :
                  (/\ batch[k] = [url |-> c.url, content |-> c.content]
                   /\ tasks[k].class # "") => tasks[k].class = "update"
        /\ (AfterStop /\ flow = "finished"
               /\ \E n \in 1..Len(docs) : docs[n] = [url |-> c.url, content |-> c.content])
              => ChunksOf(c.doc_id) = Restored(c)

\* ------------------------------------------------- claims: the delete
\* The step in which the delete_by_document_id of task run k returns True.
DeleteReturnsTrue(k) ==
    /\ k \in DOMAIN tasks'
    /\ "delete_by_document_id" \notin tasks[k].calls
    /\ "delete_by_document_id" \in tasks'[k].calls
    /\ tasks'[k].fault # "delete_by_document_id"

\* The vector store without the points of a document.
Without(doc_id) ==
    LET keep == {p \in DOMAIN points : p.document_id # doc_id}
    IN  [p \in keep |-> points[p]]

\* C34: however the task runs of a batch interleave, a call of
\* delete_by_document_id(d) that reports success leaves the vector store
\* without any point whose document_id is d and with every other point.
C34_DeleteAllAndOnly ==
    [][\A k \in DOMAIN tasks :
          DeleteReturnsTrue(k) => points' = Without(tasks[k].doc_id)]_vars

\* ------------------------------------------------- claims: the chunk count
\* C35: when aggregate_and_ingest has returned for a batch, the row of every
\* document of the batch classified new or update carries as chunk count the
\* number of points of the vector store with the document's id, also when a
\* url is listed more than once in the batch.
C35_ChunkCountIsPointCount ==
    AggregateReturned =>
        \A k \in DOMAIN tasks :
            tasks[k].res.action \in {"new", "update"} =>
                documents[tasks[k].res.doc_id[2]].n_chunks
                    = BagCardinality(ChunksOf(tasks[k].res.doc_id))

\* ------------------------------------------------- claims: the prompt
\* C36: the prompt built from what hybrid_search returned lists every context
\* once, in order, each with the source url of the point it is the text of,
\* also when several contexts share a url.
C36_PromptPairsContexts ==
    contexts_list.built =>
        LET kept == SelectSeq(results, HasSource)
        IN  /\ Len(contexts_list.list) = Len(contexts)
            /\ \A n \in 1..Len(contexts_list.list) :
                  contexts_list.list[n] = Entry(payload[kept[n].id].source_url, contexts[n])

\* --------------------------------------- claims: the consumer, every byte
\* C37: a response read to its end without error has delivered all the text
\* that arrived: as the content when it holds no line break, else its first
\* line as the sources (when it is the sources object) or as content, and
\* the rest as content.
C37_EveryByteDelivered ==
    (client_at = "returned" /\ returned.error = NoError) =>
        LET cut == FirstNewline(arrived, 1)
            data == JsonLoads(SubSeq(arrived, 1, cut - 1))
        IN  IF cut = 0
              THEN returned.content = clean_and_format_response(arrived)
            ELSE IF data.kind = "dict" /\ data.type = "sources"
              THEN /\ returned.sources = data.data
                   /\ returned.content = clean_and_format_response(
                                             SubSeq(arrived, cut + 1, Len(arrived)))
            ELSE returned.content = clean_and_format_response(arrived)

\* --------------------------------------- claims: the consumer, the chunking
\* What stream_api_response gets from a body that arrives in one chunk:
\* full_response, sources and the error.
Whole(bytes) ==
    LET text == Decode(bytes)
        cut == FirstNewline(text, 1)
        first_line == SubSeq(text, 1, cut - 1)
        remaining == SubSeq(text, cut + 1, Len(text))
        data == JsonLoads(first_line)
    IN  IF cut = 0
          THEN [content |-> <<>>, sources |-> <<>>, error |-> NoError]
        ELSE IF data.kind = "dict"
          THEN [content |-> remaining,
                sources |-> IF data.type = "sources" THEN data.data ELSE <<>>,
                error |-> NoError]
        ELSE IF data.kind = "JSONDecodeError"
          THEN [content |-> first_line \o <<"\n">> \o remaining, sources |-> <<>>,
                error |-> NoError]
        ELSE [content |-> <<>>, sources |-> <<>>, error |-> "Unexpected error"]

\* C38: when stream_api_response has returned on a 200 response whose
\* transport did not fail, the content before the final formatting, the
\* sources and the error are those of the body delivered in one chunk,
\* however the network cut the body into chunks.
C38_SplitIndependent ==
    (client_at = "returned" /\ status = 200 /\ returned.error # "transport") =>
        /\ returned.error = Whole(body).error
        /\ returned.sources = Whole(body).sources
        /\ returned.error = NoError => full_response = Whole(body).content

\* ------------------------------------------------- claims: the chat history
\* C39: whenever a prompt attached the previous interaction, the message it
\* read as messages[-1] was the prompt itself, as a user message, the one it
\* read as messages[-2] an assistant message, and the one it read as
\* messages[-3] a user message.
C39_PreviousInteraction ==
    read.attached =>
        /\ read.current = [role |-> "user", content |-> query_to_send.prompt]
        /\ read.assistant.role = "assistant"
        /\ read.user.role = "user"

====
